---------------------------- MODULE Spec2Model ----------------------------
(***************************************************************************)
(* Schema-driven validation and batched-storage engine of the data         *)
(* management backend: field type registry, naming service, schema         *)
(* manager, record engine, bulk batch processor and CSV pipeline, over a   *)
(* document store with single-document operations and atomic write         *)
(* batches.                                                                *)
(*                                                                         *)
(* Text is modelled character by character: a JavaScript string is a       *)
(* sequence of one-character strings.  A JavaScript value is a record      *)
(* [t |-> <typeof tag>, v |-> <payload sequence>].  A document is a        *)
(* function from attribute names (character sequences) to values.          *)
(***************************************************************************)
EXTENDS Integers, Sequences, FiniteSets, TLC

(***************************************************************************)
(* Strings                                                                 *)
(***************************************************************************)
Chars(s) == [i \in 1..Len(s) |-> SubSeq(s, i, i)]

DigitChars == Chars("0123456789")
LowerChars == Chars("abcdefghijklmnopqrstuvwxyz")
UpperChars == Chars("ABCDEFGHIJKLMNOPQRSTUVWXYZ")
Range(f) == {f[i] : i \in DOMAIN f}
Digits == Range(DigitChars)
Lowers == Range(LowerChars)
Uppers == Range(UpperChars)
HexChars == Digits \cup Range(Chars("abcdefABCDEF"))
\* \s of a JavaScript regular expression and the white space of trim()
IsWs(c) == c \in {" ", "\t", "\n", "\r"}

Min(S) == CHOOSE x \in S : \A y \in S : x <= y
Max(S) == CHOOSE x \in S : \A y \in S : y <= x

\* String.prototype.toLowerCase
LowerChar(c) ==
  IF c \in Uppers THEN LowerChars[CHOOSE i \in 1..26 : UpperChars[i] = c] ELSE c
ToLower(s) == [i \in 1..Len(s) |-> LowerChar(s[i])]

\* String.prototype.trim
Trim(s) ==
  LET keep == {i \in 1..Len(s) : ~IsWs(s[i])}
  IN  IF keep = {} THEN <<>> ELSE SubSeq(s, Min(keep), Max(keep))
TrimStart(s) ==
  LET keep == {i \in 1..Len(s) : ~IsWs(s[i])}
  IN  IF keep = {} THEN <<>> ELSE SubSeq(s, Min(keep), Len(s))

\* String.prototype.includes / startsWith on character sequences
StartsAt(s, i, pre) ==
  /\ i + Len(pre) - 1 <= Len(s)
  /\ \A k \in 1..Len(pre) : s[i + k - 1] = pre[k]
Includes(s, sub) == \E i \in 1..(Len(s) + 1) : StartsAt(s, i, sub)

\* number of consecutive decimal digits of s from position i on
DigitRun(s, i) ==
  CHOOSE n \in 0..(Len(s) + 1) :
    /\ i + n - 1 <= Len(s) \/ n = 0
    /\ \A k \in i..(i + n - 1) : s[k] \in Digits
    /\ (i + n > Len(s) \/ s[i + n] \notin Digits)

DigitVal(c) == (CHOOSE k \in 1..10 : DigitChars[k] = c) - 1

\* Magnitudes are kept exactly below NumCap and saturate there; every bound
\* the validators compare with (0, 1, 5, 100) is far below it.
NumCap == 1000000000
SatMul10(n) == IF n >= NumCap \div 10 THEN NumCap ELSE n * 10
RECURSIVE SatDigits(_, _)
SatDigits(ds, acc) ==
  IF ds = <<>> THEN acc
  ELSE SatDigits(Tail(ds),
                 IF SatMul10(acc) >= NumCap THEN NumCap
                 ELSE SatMul10(acc) + DigitVal(Head(ds)))
RECURSIVE SatPow10(_, _)
SatPow10(n, k) ==
  IF k <= 0 \/ n >= NumCap \/ n = 0 THEN n ELSE SatPow10(SatMul10(n), k - 1)


(***************************************************************************)
(* Numerals: parseFloat, parseInt and ToNumber of a string                 *)
(***************************************************************************)
NaN == [nan |-> TRUE, neg |-> FALSE, mant |-> 0, scale |-> 0, end |-> 0]

\* parseFloat(s): leading white space is skipped and the longest prefix that
\* is a StrDecimalLiteral is read; the value is (-1)^neg * mant * 10^scale and
\* end is the position after the prefix in the left-trimmed string.
\* the steps of the scan, each with what the earlier ones found: the sign and
\* the start b of the digits, the n1 integer digits, the n2 fraction digits,
\* the position e after them, the exponent's start eb and its n3 digits
ParseFloatValue(s, neg, b, n1, n2, e, eNeg, eb, n3) ==
  IF n1 + n2 = 0 THEN NaN
  ELSE [nan |-> FALSE, neg |-> neg,
        mant |-> SatDigits(SubSeq(s, b, b + n1 - 1)
                             \o SubSeq(s, b + n1 + 1, b + n1 + n2), 0),
        scale |-> (IF n3 >= 1
                     THEN (IF eNeg THEN 0 - SatDigits(SubSeq(s, eb, eb + n3 - 1), 0)
                           ELSE SatDigits(SubSeq(s, eb, eb + n3 - 1), 0))
                     ELSE 0) - n2,
        end |-> IF n3 >= 1 THEN eb + n3 ELSE e]
ParseFloatExpDigits(s, neg, b, n1, n2, e, hasE, eSign) ==
  ParseFloatValue(s, neg, b, n1, n2, e, eSign /\ s[e + 1] = "-",
                  e + 1 + (IF eSign THEN 1 ELSE 0),
                  IF hasE THEN DigitRun(s, e + 1 + (IF eSign THEN 1 ELSE 0)) ELSE 0)
ParseFloatExp(s, neg, b, n1, n2, e, hasE) ==
  ParseFloatExpDigits(s, neg, b, n1, n2, e, hasE,
                      hasE /\ e + 1 <= Len(s) /\ s[e + 1] \in {"+", "-"})
ParseFloatFrac(s, neg, b, n1, dot, n2) ==
  ParseFloatExp(s, neg, b, n1, n2, b + n1 + (IF dot THEN 1 + n2 ELSE 0),
                b + n1 + (IF dot THEN 1 + n2 ELSE 0) <= Len(s)
                  /\ s[b + n1 + (IF dot THEN 1 + n2 ELSE 0)] \in {"e", "E"})
ParseFloatDot(s, neg, b, n1, dot) ==
  ParseFloatFrac(s, neg, b, n1, dot, IF dot THEN DigitRun(s, b + n1 + 1) ELSE 0)
ParseFloatInt(s, neg, b, n1) ==
  ParseFloatDot(s, neg, b, n1, b + n1 <= Len(s) /\ s[b + n1] = ".")
ParseFloatSigned(s, neg, b) ==
  IF StartsAt(s, b, Chars("Infinity"))
    THEN [nan |-> FALSE, neg |-> neg, mant |-> NumCap, scale |-> 0, end |-> b + 8]
  ELSE ParseFloatInt(s, neg, b, DigitRun(s, b))
ParseFloatTrimmed(s) ==
  ParseFloatSigned(s, Len(s) >= 1 /\ s[1] = "-",
                   IF Len(s) >= 1 /\ s[1] \in {"+", "-"} THEN 2 ELSE 1)
ParseFloat(s0) == ParseFloatTrimmed(TrimStart(s0))

\* num >= 0 and num <= n for a parsed numeral (n a small natural)
NumNonNeg(p) == ~p.neg \/ p.mant = 0
NumLeq(p, n) ==
  \/ p.neg
  \/ IF p.scale >= 0 THEN SatPow10(p.mant, p.scale) <= n
     ELSE p.mant <= SatPow10(n, 0 - p.scale)

HexVal(c) == (CHOOSE k \in 1..16 : Chars("0123456789abcdef")[k] = LowerChar(c)) - 1
HexRun(s, i) ==
  CHOOSE n \in 0..(Len(s) + 1) :
    /\ i + n - 1 <= Len(s) \/ n = 0
    /\ \A k \in i..(i + n - 1) : s[k] \in HexChars
    /\ (i + n > Len(s) \/ s[i + n] \notin HexChars)
RECURSIVE SatHex(_, _)
SatHex(ds, acc) ==
  IF ds = <<>> THEN acc
  ELSE SatHex(Tail(ds),
              IF acc >= NumCap \div 16 THEN NumCap ELSE acc * 16 + HexVal(Head(ds)))

\* parseInt(s) without a radix: white space, sign, 0x prefix or decimal digits
NaNInt == [nan |-> TRUE, neg |-> FALSE, mag |-> 0]
ParseIntDigits(s, neg, b, hex, n) ==
  IF n = 0 THEN NaNInt
  ELSE [nan |-> FALSE, neg |-> neg,
        mag |-> IF hex THEN SatHex(SubSeq(s, b + 2, b + 1 + n), 0)
                ELSE SatDigits(SubSeq(s, b, b + n - 1), 0)]
ParseIntRadix(s, neg, b, hex) ==
  ParseIntDigits(s, neg, b, hex, IF hex THEN HexRun(s, b + 2) ELSE DigitRun(s, b))
ParseIntSigned(s, neg, b) ==
  ParseIntRadix(s, neg, b, StartsAt(s, b, <<"0", "x">>) \/ StartsAt(s, b, <<"0", "X">>))
ParseIntTrimmed(s) ==
  ParseIntSigned(s, Len(s) >= 1 /\ s[1] = "-",
                 IF Len(s) >= 1 /\ s[1] \in {"+", "-"} THEN 2 ELSE 1)
ParseInt(s0) == ParseIntTrimmed(TrimStart(s0))

\* !isNaN(s) for a string s: ToNumber reads the whole trimmed string, the
\* empty string is 0, and 0x / 0o / 0b integer literals are numbers too.
RadixLiteral(t) ==
  /\ Len(t) >= 3
  /\ t[1] = "0"
  /\ \/ t[2] \in {"x", "X"} /\ \A k \in 3..Len(t) : t[k] \in HexChars
     \/ t[2] \in {"o", "O"} /\ \A k \in 3..Len(t) : t[k] \in Range(Chars("01234567"))
     \/ t[2] \in {"b", "B"} /\ \A k \in 3..Len(t) : t[k] \in {"0", "1"}
WholeNumeral(t, p) == ~p.nan /\ p.end = Len(t) + 1
NumericTrimmed(t) == t = <<>> \/ WholeNumeral(t, ParseFloat(t)) \/ RadixLiteral(t)
IsNumericString(s) == NumericTrimmed(Trim(s))

(***************************************************************************)
(* JavaScript values                                                       *)
(***************************************************************************)
Str(s) == [t |-> "string", v |-> s]
Num(s) == [t |-> "number", v |-> s]          \* v: the numeral String(n) gives
Bool(b) == [t |-> "boolean", v |-> IF b THEN Chars("true") ELSE Chars("false")]
Null == [t |-> "null", v |-> <<>>]
Arr(vs) == [t |-> "array", v |-> vs]         \* v: a sequence of scalar values
Obj == [t |-> "object", v |-> <<>>]          \* a plain object, contents opaque
Instant(n) == [t |-> "date", v |-> <<n>>]    \* a Date: the clock reading n
Fn == [t |-> "function", v |-> <<>>]         \* a built-in function

\* a stored instant is read back as a Timestamp of _seconds and _nanoseconds;
\* the instants of the clock are half seconds
TicksPerSecond == 2
Seconds(t) == t \div TicksPerSecond
IsStr(x) == x.t = "string"

RECURSIVE Join(_, _)
Join(ss, sep) ==
  IF ss = <<>> THEN <<>>
  ELSE IF Len(ss) = 1 THEN ss[1]
  ELSE ss[1] \o sep \o Join(Tail(ss), sep)

\* String(x) of a scalar; a Date prints with digits and letters in it
ScalarStr(x) ==
  CASE x.t = "null" -> Chars("null")
    [] x.t = "object" -> Chars("[object Object]")
    [] x.t = "date" -> Chars("Thu Jan 01 1970 00:00:00 GMT+0000")
    [] x.t = "function" -> Chars("function Object() { [native code] }")
    [] OTHER -> x.v
\* String(x); Array.prototype.join prints a null element as the empty string
ToStr(x) ==
  IF x.t = "array"
    THEN Join([i \in 1..Len(x.v) |->
                 IF x.v[i].t = "null" THEN <<>> ELSE ScalarStr(x.v[i])], <<",">>)
    ELSE ScalarStr(x)

(***************************************************************************)
(* Patterns of the field type registry                                     *)
(***************************************************************************)
\* /^[^\s@]+@[^\s@]+\.[^\s@]+$/
IsEmail(s) ==
  /\ \A i \in 1..Len(s) : ~IsWs(s[i])
  /\ Cardinality({i \in 1..Len(s) : s[i] = "@"}) = 1
  /\ LET a == CHOOSE i \in 1..Len(s) : s[i] = "@"
     IN  /\ a > 1
         /\ \E d \in (a + 2)..(Len(s) - 1) : s[d] = "."

\* /^\d{10}$/
PhoneDigits == 10
IsPhone(s) == Len(s) = PhoneDigits /\ \A i \in 1..Len(s) : s[i] \in Digits

\* /^#[0-9A-F]{6}$/i
ColorHexDigits == 6
IsColor(s) ==
  /\ Len(s) = ColorHexDigits + 1
  /\ s[1] = "#"
  /\ \A i \in 2..Len(s) : s[i] \in HexChars

\* new URL(s) does not throw.  The URL parser is followed for absolute URLs
\* whose host is built from letters, digits, '-', '.' and '_': a scheme
\* [A-Za-z][A-Za-z0-9+.-]* and ':'; a special scheme needs a non-empty host,
\* any other scheme takes the rest as an opaque path.
SchemeLen(s) ==
  IF Len(s) = 0 \/ s[1] \notin (Lowers \cup Uppers) THEN 0
  ELSE LET ok(c) == c \in (Lowers \cup Uppers \cup Digits \cup {"+", "-", "."})
           stop == {i \in 1..Len(s) : ~ok(s[i])}
       IN  IF stop = {} \/ s[Min(stop)] # ":" THEN 0 ELSE Min(stop) - 1
SpecialSchemes == {Chars("http"), Chars("https"), Chars("ftp"), Chars("ws"), Chars("wss")}
UrlHostChars(auth, cut) ==
  LET host == IF cut = {} THEN auth ELSE SubSeq(auth, 1, Min(cut) - 1)
  IN  /\ host # <<>>
      /\ \A i \in 1..Len(host) :
           host[i] \in (Lowers \cup Uppers \cup Digits \cup {"-", ".", "_"})
UrlHost(auth) == UrlHostChars(auth, {i \in 1..Len(auth) : auth[i] \in {"/", "?", "#", ":"}})
UrlAuthority(rest, slashes) ==
  slashes # {} /\ UrlHost(SubSeq(rest, Min(slashes), Len(rest)))
UrlRest(rest) == UrlAuthority(rest, {i \in 1..Len(rest) : rest[i] \notin {"/", "\\"}})
UrlScheme(s, n) ==
  /\ n > 0
  /\ ToLower(SubSeq(s, 1, n)) \in SpecialSchemes => UrlRest(SubSeq(s, n + 2, Len(s)))
UrlTrimmed(s) == UrlScheme(s, SchemeLen(s))
IsUrl(s0) == UrlTrimmed(Trim(s0))

\* !isNaN(Date.parse(s)).  The ECMAScript date-time string format is followed
\* (YYYY, YYYY-MM, YYYY-MM-DD, optionally THH:mm, THH:mm:ss, and Z); a string
\* without any digit never parses.  Other strings with digits fall to the
\* engine's legacy heuristics and are kept out of the inputs.
TwoDigits(s, i) ==
  IF i + 1 <= Len(s) /\ s[i] \in Digits /\ s[i + 1] \in Digits
    THEN DigitVal(s[i]) * 10 + DigitVal(s[i + 1]) ELSE 0 - 1
IsIsoDate(s) ==
  /\ Len(s) \in {4, 7, 10}
  /\ \A i \in 1..4 : s[i] \in Digits
  /\ Len(s) >= 7 => s[5] = "-" /\ TwoDigits(s, 6) \in 1..12
  /\ Len(s) >= 10 => s[8] = "-" /\ TwoDigits(s, 9) \in 1..31
IsIsoTime(s) ==
  LET body == IF Len(s) >= 1 /\ s[Len(s)] = "Z" THEN SubSeq(s, 1, Len(s) - 1) ELSE s
  IN  /\ Len(body) \in {5, 8}
      /\ TwoDigits(body, 1) \in 0..23
      /\ body[3] = ":"
      /\ TwoDigits(body, 4) \in 0..59
      /\ Len(body) = 8 => body[6] = ":" /\ TwoDigits(body, 7) \in 0..59
IsDateString(s) ==
  LET ts == {i \in 1..Len(s) : s[i] = "T"}
  IN  IF ts = {} THEN IsIsoDate(s)
      ELSE /\ IsIsoDate(SubSeq(s, 1, Min(ts) - 1))
           /\ IsIsoTime(SubSeq(s, Min(ts) + 1, Len(s)))

(***************************************************************************)
(* JSON.parse(s) does not throw: a recogniser of the JSON grammar.  Each   *)
(* operator returns the position after what it read, or 0.                 *)
(***************************************************************************)
JSkip(s, i) ==
  LET rest == {k \in i..Len(s) : ~IsWs(s[k])}
  IN  IF rest = {} THEN Len(s) + 1 ELSE Min(rest)

JNumberExpDigits(s, eb, n3) == IF n3 = 0 THEN 0 ELSE eb + n3
JNumberExpSign(s, eb) == JNumberExpDigits(s, eb, DigitRun(s, eb))
JNumberExp(s, e) ==
  IF e <= Len(s) /\ s[e] \in {"e", "E"}
    THEN JNumberExpSign(s, IF e + 1 <= Len(s) /\ s[e + 1] \in {"+", "-"}
                             THEN e + 2 ELSE e + 1)
    ELSE e
JNumberFracDigits(s, d, n2) == IF n2 = 0 THEN 0 ELSE JNumberExp(s, d + 1 + n2)
JNumberFrac(s, d) ==
  IF d <= Len(s) /\ s[d] = "." THEN JNumberFracDigits(s, d, DigitRun(s, d + 1))
  ELSE JNumberExp(s, d)
JNumberInt(s, b, n1) ==
  IF n1 = 0 \/ (s[b] = "0" /\ n1 > 1) THEN 0 ELSE JNumberFrac(s, b + n1)
JNumberSigned(s, b) == JNumberInt(s, b, DigitRun(s, b))
JNumber(s, i) == JNumberSigned(s, IF i <= Len(s) /\ s[i] = "-" THEN i + 1 ELSE i)

RECURSIVE JStrScan(_, _)
JStrScan(s, k) ==
  IF k > Len(s) THEN 0
  ELSE IF s[k] = "\"" THEN k + 1
  ELSE IF s[k] \in {"\n", "\r", "\t"} THEN 0
  ELSE IF s[k] = "\\"
    THEN IF k + 1 > Len(s) THEN 0
         ELSE IF s[k + 1] \in {"\"", "\\", "/", "b", "f", "n", "r", "t"}
           THEN JStrScan(s, k + 2)
         ELSE IF s[k + 1] = "u" /\ k + 5 <= Len(s)
                 /\ \A j \in (k + 2)..(k + 5) : s[j] \in HexChars
           THEN JStrScan(s, k + 6)
         ELSE 0
  ELSE JStrScan(s, k + 1)

RECURSIVE JValue(_, _), JElems(_, _), JMembers(_, _)
JOpen(s, j, close) ==
  IF j <= Len(s) /\ s[j] = close THEN j + 1
  ELSE IF close = "]" THEN JElems(s, j) ELSE JMembers(s, j)
JValueAt(s, i) ==
  IF i > Len(s) THEN 0
  ELSE IF StartsAt(s, i, Chars("true")) THEN i + 4
  ELSE IF StartsAt(s, i, Chars("false")) THEN i + 5
  ELSE IF StartsAt(s, i, Chars("null")) THEN i + 4
  ELSE IF s[i] = "\"" THEN JStrScan(s, i + 1)
  ELSE IF s[i] = "[" THEN JOpen(s, JSkip(s, i + 1), "]")
  ELSE IF s[i] = "{" THEN JOpen(s, JSkip(s, i + 1), "}")
  ELSE JNumber(s, i)
JValue(s, i0) == JValueAt(s, JSkip(s, i0))
JElemsSep(s, j) ==
  IF j > Len(s) THEN 0
  ELSE IF s[j] = "]" THEN j + 1
  ELSE IF s[j] = "," THEN JElems(s, j + 1)
  ELSE 0
JElemsNext(s, e) == IF e = 0 THEN 0 ELSE JElemsSep(s, JSkip(s, e))
JElems(s, i) == JElemsNext(s, JValue(s, i))
JMemberSep(s, j) ==
  IF j > Len(s) THEN 0
  ELSE IF s[j] = "}" THEN j + 1
  ELSE IF s[j] = "," THEN JMembers(s, j + 1)
  ELSE 0
JMemberNext(s, e) == IF e = 0 THEN 0 ELSE JMemberSep(s, JSkip(s, e))
JMemberValue(s, c) ==
  IF c > Len(s) THEN 0
  ELSE IF s[c] # ":" THEN 0
  ELSE JMemberNext(s, JValue(s, c + 1))
JMemberColon(s, k) == IF k = 0 THEN 0 ELSE JMemberValue(s, JSkip(s, k))
JMemberKey(s, i) ==
  JMemberColon(s, IF i <= Len(s) /\ s[i] = "\"" THEN JStrScan(s, i + 1) ELSE 0)
JMembers(s, i0) == JMemberKey(s, JSkip(s, i0))
JsonEnd(s, e) == e # 0 /\ JSkip(s, e) = Len(s) + 1
IsJsonText(s) == JsonEnd(s, JValue(s, 1))

(***************************************************************************)
(* Field type registry                                                     *)
(***************************************************************************)
SUPPORTED_FIELD_TYPES ==
  <<"text", "textarea", "number", "email", "phone", "url",
    "date", "datetime", "boolean", "select", "multiselect",
    "currency", "percentage", "rating", "color", "file", "image", "json">>

TextMaxLen == 500
TextareaMaxLen == 5000
PercentageMax == 100
RatingMin == 1
RatingMax == 5

\* validators[type](value, options); str is String(value), num is
\* parseFloat(value) and int is parseInt(value)
ValidatorOn(type, value, options, str, num, int) ==
  CASE type = "text" -> IsStr(value) /\ Len(value.v) <= TextMaxLen
    [] type = "textarea" -> IsStr(value) /\ Len(value.v) <= TextareaMaxLen
    [] type = "number" -> ~num.nan
    [] type = "email" -> IsStr(value) /\ IsEmail(value.v)
    [] type = "phone" -> IsStr(value) /\ IsPhone(value.v)
    [] type = "url" -> IsStr(value) /\ IsUrl(value.v)
    [] type \in {"date", "datetime"} -> value.t = "date" \/ IsDateString(str)
    [] type = "boolean" -> value.t = "boolean"
    [] type = "select" -> \E i \in 1..Len(options) : options[i] = value
    [] type = "multiselect" ->
         /\ value.t = "array"
         /\ \A k \in 1..Len(value.v) :
              \E i \in 1..Len(options) : options[i] = value.v[k]
    [] type = "currency" -> ~num.nan /\ NumNonNeg(num)
    [] type = "percentage" -> ~num.nan /\ NumNonNeg(num) /\ NumLeq(num, PercentageMax)
    [] type = "rating" ->
         ~int.nan /\ ~int.neg /\ int.mag >= RatingMin /\ int.mag <= RatingMax
    [] type = "color" -> IsStr(value) /\ IsColor(value.v)
    [] type \in {"file", "image"} -> IsStr(value) /\ Len(value.v) > 0
    [] type = "json" -> IF IsStr(value) THEN IsJsonText(value.v) ELSE value.t # "function"
ValidatorStr(type, value, options, str) ==
  ValidatorOn(type, value, options, str, ParseFloat(str), ParseInt(str))
Validator(type, value, options) == ValidatorStr(type, value, options, ToStr(value))

isValidFieldType(type) == \E i \in 1..Len(SUPPORTED_FIELD_TYPES) : SUPPORTED_FIELD_TYPES[i] = type

\* data[name] of an object literal or a parsed JSON object: an own property,
\* or a method inherited from Object.prototype, or undefined
InheritedNames ==
  {Chars("constructor"), Chars("toString"), Chars("valueOf"), Chars("hasOwnProperty")}
Lookup(data, name) ==
  IF name \in DOMAIN data THEN data[name]
  ELSE IF name \in InheritedNames THEN Fn
  ELSE Null

\* value === undefined || value === null || value === ''
EmptyValue(value) == value.t = "null" \/ (value.t = "string" /\ value.v = <<>>)
IsEmptyValue(data, name) == EmptyValue(Lookup(data, name))

\* validateField(data[field.name], field): "ok" or the kind of its error
validateField(data, field) ==
  IF field.required /\ IsEmptyValue(data, field.name) THEN "required"
  ELSE IF ~field.required /\ IsEmptyValue(data, field.name) THEN "ok"
  ELSE IF ~isValidFieldType(field.type) THEN "unknown_type"
  ELSE IF ~Validator(field.type, Lookup(data, field.name), field.options)
    THEN "invalid_format"
  ELSE "ok"

\* validateRecord(data, fields): valid, and errors as a map from the field
\* name to the kind of error (a later field of the same name overwrites)
FieldResults(data, fields) == [i \in 1..Len(fields) |-> validateField(data, fields[i])]
RecordVerdict(fields, results) ==
  LET bad == {i \in 1..Len(fields) : results[i] # "ok"}
  IN  [valid |-> bad = {},
       errors |-> [n \in {fields[i].name : i \in bad} |->
                     results[Max({i \in bad : fields[i].name = n})]]]
validateRecord(data, fields) == RecordVerdict(fields, FieldResults(data, fields))

(***************************************************************************)
(* Data schema utilities                                                   *)
(***************************************************************************)
RECURSIVE NatChars(_)
NatChars(n) ==
  IF n < 10 THEN <<DigitChars[n + 1]>>
  ELSE NatChars(n \div 10) \o <<DigitChars[(n % 10) + 1]>>

\* crypto.randomBytes(8).toString('hex'): the k-th draw; draws never repeat
generateSchemaId(k) == Chars("schema_") \o NatChars(k)
generateRecordId(k) == Chars("rec_") \o NatChars(k)

\* displayName.toLowerCase().replace(/[^a-z0-9]/g, '_').substring(0, 50)
SlugMaxLen == 50
Sanitize(displayName) ==
  LET low == ToLower(displayName)
      rep == [i \in 1..Len(low) |->
                IF low[i] \in (Lowers \cup Digits) THEN low[i] ELSE "_"]
  IN  SubSeq(rep, 1, IF Len(rep) < SlugMaxLen THEN Len(rep) ELSE SlugMaxLen)

\* `${appPrefix}_data_${hash}_${sanitized}`; the 8 hex characters of the MD5
\* digest are kept as the hashed text itself (distinct texts, distinct hashes)
generateInternalTableName(appPrefix, displayName, timestamp) ==
  [prefix |-> appPrefix,
   hash |-> appPrefix \o <<"_">> \o displayName \o <<"_">> \o NatChars(timestamp),
   slug |-> Sanitize(displayName)]

\* a variant whose chunks hold one element more
chunkArrayWide(array, size) ==
  [c \in 1..((Len(array) + size) \div (size + 1)) |->
     SubSeq(array, (c - 1) * (size + 1) + 1,
            IF c * (size + 1) < Len(array) THEN c * (size + 1) ELSE Len(array))]
\* chunkArray(array, size)
chunkArray(array, size) ==
  [c \in 1..((Len(array) + size - 1) \div size) |->
     SubSeq(array, (c - 1) * size + 1,
            IF c * size < Len(array) THEN c * size ELSE Len(array))]

DisplayNameMaxLen == 100
\* validateDisplayName(displayName).valid
validateDisplayName(displayName) ==
  /\ Len(displayName) >= 1
  /\ Len(displayName) <= DisplayNameMaxLen
  /\ \A i \in 1..Len(displayName) :
       displayName[i] \in (Lowers \cup Uppers \cup Digits) \/ IsWs(displayName[i])

\* validateFieldConfig(field).valid; a missing options array is the empty one
validateFieldConfig(field) ==
  /\ field.name # <<>>
  /\ \A i \in 1..Len(field.name) :
       field.name[i] \in (Lowers \cup Uppers \cup Digits \cup {"_"})
  /\ field.type # ""
  /\ field.type \in {"select", "multiselect"} => Len(field.options) > 0

SYSTEM_FIELDS ==
  <<Chars("id"), Chars("createdBy"), Chars("createdAt"),
    Chars("updatedBy"), Chars("updatedAt")>>
isSystemField(name) == name \in Range(SYSTEM_FIELDS)

\* { ...a, ...b }
Spread(a, b) ==
  [k \in (DOMAIN a) \cup (DOMAIN b) |-> IF k \in DOMAIN b THEN b[k] ELSE a[k]]
\* { k: x }
Prop(k, x) == [n \in {k} |-> x]
NoData == [n \in {} |-> Null]

addSystemFieldsForCreate(data, userId, now) ==
  Spread(data,
    [n \in {Chars("createdBy"), Chars("createdAt"), Chars("updatedBy"), Chars("updatedAt")}
       |-> IF n \in {Chars("createdBy"), Chars("updatedBy")} THEN Str(userId)
           ELSE Instant(now)])

\* a variant that stamps the creator and the creation instant as well
addSystemFieldsForTouch(data, userId, now) ==
  Spread(data,
    [n \in {Chars("createdBy"), Chars("createdAt"), Chars("updatedBy"), Chars("updatedAt")}
       |-> IF n \in {Chars("createdBy"), Chars("updatedBy")} THEN Str(userId)
           ELSE Instant(now)])
addSystemFieldsForUpdate(data, userId, now) ==
  Spread(data,
    [n \in {Chars("updatedBy"), Chars("updatedAt")}
       |-> IF n = Chars("updatedBy") THEN Str(userId) ELSE Instant(now)])

\* a variant that strips nothing
stripNothing(data) == data
stripSystemFields(data) ==
  [n \in {k \in DOMAIN data : ~isSystemField(k)} |-> data[n]]

(***************************************************************************)
(* CSV service                                                             *)
(***************************************************************************)
\* String.prototype.split('\n')
LineCuts(s, nl) ==
  [k \in 1..(Len(nl) - 1) |-> SubSeq(s, nl[k] + 1, nl[k + 1] - 1)]
SplitLines(s) ==
  LineCuts(s, <<0>> \o SelectSeq([i \in 1..Len(s) |-> i], LAMBDA i : s[i] = "\n")
                \o <<Len(s) + 1>>)

\* parseCSVLine(line): the loop over the characters, from position i on
RECURSIVE parseCSVLineFrom(_, _, _, _, _)
parseCSVLineFrom(line, i, current, inQuotes, values) ==
  IF i > Len(line) THEN Append(values, Trim(current))
  ELSE IF line[i] = "\""
    THEN IF inQuotes /\ i + 1 <= Len(line) /\ line[i + 1] = "\""
           THEN parseCSVLineFrom(line, i + 2, Append(current, "\""), inQuotes, values)
           ELSE parseCSVLineFrom(line, i + 1, current, ~inQuotes, values)
  ELSE IF line[i] = "," /\ ~inQuotes
    THEN parseCSVLineFrom(line, i + 1, <<>>, inQuotes, Append(values, Trim(current)))
  ELSE parseCSVLineFrom(line, i + 1, Append(current, line[i]), inQuotes, values)
parseCSVLine(line) == parseCSVLineFrom(line, 1, <<>>, FALSE, <<>>)

\* the object built from headers and values: row[header] = values[index] || ''
CsvRow(headers, values) ==
  [h \in Range(headers) |->
     LET index == Max({i \in 1..Len(headers) : headers[i] = h})
     IN  Str(IF index <= Len(values) THEN values[index] ELSE <<>>)]

\* parseCSV(csvContent): headers, the rows, and for each row the 1-based
\* number of its line in the trimmed text
ParsedRows(lines, headers, kept) ==
  [headers |-> headers,
   rows |-> [k \in 1..Len(kept) |-> CsvRow(headers, parseCSVLine(Trim(lines[kept[k]])))],
   lineOf |-> kept]
ParsedLines(lines) ==
  ParsedRows(lines, parseCSVLine(lines[1]),
             SelectSeq([i \in 1..Len(lines) |-> i],
                       LAMBDA i : i > 1 /\ Trim(lines[i]) # <<>>))
parseCSV(csvContent) == ParsedLines(SplitLines(Trim(csvContent)))

\* JSON.stringify of a Timestamp
TimestampJson(t) ==
  Chars("{\"_seconds\":") \o NatChars(Seconds(t)) \o Chars(",\"_nanoseconds\":")
    \o (IF t % TicksPerSecond = 0 THEN <<"0">> ELSE Chars("500000000")) \o <<"}">>
\* escapeCSVValue(value)
escapeCSVValue(present, value) ==
  IF ~present \/ value.t = "null" THEN <<>>
  ELSE LET str == IF value.t = "array"
                    THEN Join([i \in 1..Len(value.v) |->
                                 IF value.v[i].t = "null" THEN <<>>
                                 ELSE ScalarStr(value.v[i])], <<";", " ">>)
                  ELSE IF value.t = "object" THEN Chars("{}")
                  ELSE IF value.t = "date" THEN TimestampJson(value.v[1])
                  ELSE ToStr(value)
           quoted == [i \in 1..Len(str) |->
                        IF str[i] = "\"" THEN <<"\"", "\"">> ELSE <<str[i]>>]
       IN  IF \E i \in 1..Len(str) : str[i] \in {",", "\"", "\n"}
             THEN <<"\"">> \o Join(quoted, <<>>) \o <<"\"">>
             ELSE str

\* generateCSV(records, fields, includeSystemFields)
generateCSV(recs, fields, includeSystemFields) ==
  IF Len(recs) = 0 THEN <<>>
  ELSE LET headers == IF includeSystemFields
                        THEN <<Chars("id")>> \o fields
                               \o <<Chars("createdBy"), Chars("createdAt"),
                                    Chars("updatedBy"), Chars("updatedAt")>>
                        ELSE fields
           headerLine == Join([i \in 1..Len(headers) |->
                                 escapeCSVValue(TRUE, Str(headers[i]))], <<",">>)
           line(r) == Join([i \in 1..Len(headers) |->
                              escapeCSVValue(headers[i] \in DOMAIN r,
                                             IF headers[i] \in DOMAIN r
                                               THEN r[headers[i]] ELSE Null)], <<",">>)
       IN  Join(<<headerLine>> \o [k \in 1..Len(recs) |-> line(recs[k])], <<"\n">>)

MaxCsvBytes == 10485760
AllowedMimeTypes ==
  {"text/csv", "application/csv", "text/plain", "application/vnd.ms-excel"}
\* validateCSVFile(file).valid; file.present is false when no file came
validateCSVFile(file) ==
  /\ file.present
  /\ file.size <= MaxCsvBytes
  /\ \/ file.mimetype \in AllowedMimeTypes
     \/ LET n == ToLower(file.originalname)
        IN  Len(n) >= 4 /\ SubSeq(n, Len(n) - 3, Len(n)) = Chars(".csv")

(***************************************************************************)
(* Kind inference                                                          *)
(***************************************************************************)
RECURSIVE UniqueSeq(_, _)
UniqueSeq(s, acc) ==
  IF s = <<>> THEN acc
  ELSE IF Head(s) \in Range(acc) THEN UniqueSeq(Tail(s), acc)
  ELSE UniqueSeq(Tail(s), Append(acc, Head(s)))

SampleSize == 10
SelectMaxUnique == 10
BoolTokens == {Chars("true"), Chars("false"), Chars("1"), Chars("0"),
               Chars("yes"), Chars("no")}

\* detectFieldType(columnData): the type and, for select, the options
PlainType(type) == [type |-> type, options |-> <<>>]
DetectSelect(strs, unique) ==
  IF Len(unique) <= SelectMaxUnique /\ 2 * Len(unique) < Len(strs)
    THEN [type |-> "select", options |-> [i \in 1..Len(unique) |-> Str(unique[i])]]
  ELSE PlainType("text")
\* a variant that tries number before phone
DetectStringsNumberFirst(strs) ==
  IF \A i \in 1..Len(strs) : IsEmail(strs[i]) THEN PlainType("email")
  ELSE IF \A i \in 1..Len(strs) : IsNumericString(strs[i]) /\ Trim(strs[i]) # <<>>
    THEN PlainType("number")
  ELSE IF \A i \in 1..Len(strs) : IsPhone(strs[i]) THEN PlainType("phone")
  ELSE IF \A i \in 1..Len(strs) : IsUrl(strs[i]) THEN PlainType("url")
  ELSE IF \A i \in 1..Len(strs) : ToLower(strs[i]) \in BoolTokens THEN PlainType("boolean")
  ELSE IF \A i \in 1..Len(strs) : IsDateString(strs[i]) THEN PlainType("date")
  ELSE DetectSelect(strs, UniqueSeq(strs, <<>>))
DetectStrings(strs) ==
  IF \A i \in 1..Len(strs) : IsEmail(strs[i]) THEN PlainType("email")
  ELSE IF \A i \in 1..Len(strs) : IsPhone(strs[i]) THEN PlainType("phone")
  ELSE IF \A i \in 1..Len(strs) : IsUrl(strs[i]) THEN PlainType("url")
  ELSE IF \A i \in 1..Len(strs) : IsNumericString(strs[i]) /\ Trim(strs[i]) # <<>>
    THEN PlainType("number")
  ELSE IF \A i \in 1..Len(strs) : ToLower(strs[i]) \in BoolTokens THEN PlainType("boolean")
  ELSE IF \A i \in 1..Len(strs) : IsDateString(strs[i]) THEN PlainType("date")
  ELSE DetectSelect(strs, UniqueSeq(strs, <<>>))
DetectSamples(samples) ==
  IF Len(samples) = 0 THEN PlainType("text")
  ELSE DetectStrings([i \in 1..Len(samples) |-> ToStr(samples[i])])
DetectNonEmpty(nonEmpty) ==
  DetectSamples(SubSeq(nonEmpty, 1,
                       IF Len(nonEmpty) < SampleSize THEN Len(nonEmpty) ELSE SampleSize))
detectFieldType(columnData) ==
  DetectNonEmpty(SelectSeq(columnData,
                   LAMBDA x : ~(x.t = "null" \/ (x.t = "string" /\ x.v = <<>>))))

(***************************************************************************)
(* State                                                                   *)
(***************************************************************************)
VARIABLES
  schemas,   \* the schema documents: a function from <<appPrefix, schemaId>>
             \* (collection {appPrefix}_data_schemas, document schemaId)
  records,   \* the record documents: a set of <<document id, collection, document>>
  clock,     \* the reading Date.now() / new Date() gave last
  nextId,    \* the number of crypto.randomBytes draws made, plus one
  proc,      \* the requests in flight, one per worker
  calls      \* the number of requests received

vars == <<schemas, records, clock, nextId, proc, calls>>

\* the requests a worker set may receive in all: the workers of the
\* concurrent specification and the worker of the bulk specification
Procs == {"w1", "w2"}
BulkProcs == {"b1"}
MaxCalls == 2
MaxBulkCalls == 1
MaxClock == 4

\* the response envelope of responseHandler: fail(res, status, code, details)
\* and ok / created (res, data)
Response(status, code, data) == [status |-> status, code |-> code, data |-> data]
NoResp == Response(0, "none", <<>>)
Idle ==
  [pc |-> "idle", op |-> "none", req |-> <<>>, schema |-> <<>>, work |-> <<>>,
   n |-> 0, tx |-> <<>>, out |-> <<>>, resp |-> NoResp]

\* Firestore documents
Put(f, k, x) == [y \in (DOMAIN f) \cup {k} |-> IF y = k THEN x ELSE f[y]]
DocIds(coll) == {r[1] : r \in {x \in records : x[2] = coll}}
HasDoc(coll, id) == \E r \in records : r[1] = id /\ r[2] = coll
Doc(coll, id) == (CHOOSE r \in records : r[1] = id /\ r[2] = coll)[3]
\* the readings the clock may give now
Nows == clock..(IF clock < MaxClock THEN clock + 1 ELSE clock)

Ready(p) ==
  /\ proc[p].pc \in {"idle", "done"}
  /\ calls < (IF p \in BulkProcs THEN MaxBulkCalls ELSE MaxCalls)
Start(p, op, req) == [Idle EXCEPT !.op = op, !.req = req]
Finish(p, resp) == proc' = [proc EXCEPT ![p].pc = "done", ![p].resp = resp]
\* the request me is answered at once
Reply(p, me, resp) == proc' = [proc EXCEPT ![p] = [me EXCEPT !.pc = "done", !.resp = resp]]

(***************************************************************************)
(* Schema manager: createSchema                                            *)
(***************************************************************************)
MaxFields == 50

\* the checks of createSchema before it reads the store: "ok" or the error code
createSchemaCheck(req) ==
  LET fields == req.fields
      dup(i) == \E j \in 1..(i - 1) : fields[j].name = fields[i].name
      badField(i) == dup(i) \/ ~validateFieldConfig(fields[i])
                       \/ ~isValidFieldType(fields[i].type)
      bad == {i \in 1..Len(fields) : badField(i)}
  IN  IF req.appId = <<>> \/ req.appPrefix = <<>> \/ req.displayName = <<>>
           \/ req.userId = <<>>
        THEN "INVALID_INPUT"
      ELSE IF ~validateDisplayName(req.displayName) THEN "VALIDATION_ERROR"
      ELSE IF Len(fields) = 0 THEN "VALIDATION_ERROR"
      ELSE IF Len(fields) > MaxFields THEN "FIELD_LIMIT_EXCEEDED"
      ELSE IF bad # {}
        THEN LET i == Min(bad)
             IN  IF dup(i) THEN "DUPLICATE_FIELD"
                 ELSE IF ~validateFieldConfig(fields[i]) THEN "VALIDATION_ERROR"
                 ELSE "INVALID_FIELD_TYPE"
      ELSE "ok"

\* the schema document createSchema and the CSV import build
SchemaDoc(schemaId, appId, appPrefix, displayName, fields, userId, now) ==
  [schemaId |-> schemaId,
   displayName |-> displayName,
   internalName |-> generateInternalTableName(appPrefix, displayName, now),
   appId |-> appId,
   appPrefix |-> appPrefix,
   fields |-> fields,
   recordCount |-> 0,
   createdBy |-> userId,
   createdAt |-> now,
   updatedBy |-> userId,
   updatedAt |-> now]

\* where('appId', '==', appId).where('displayName', '==', displayName)
SameNameSchemas(appPrefix, appId, displayName) ==
  {k \in DOMAIN schemas :
     /\ k[1] = appPrefix
     /\ schemas[k].appId = appId
     /\ schemas[k].displayName = displayName}

\* createSchema up to the duplicate query
CreateSchemaCall(p, Inputs) ==
  /\ Ready(p)
  /\ \E req \in Inputs :
       LET check == createSchemaCheck(req)
           existing == SameNameSchemas(req.appPrefix, req.appId, req.displayName)
           me == Start(p, "createSchema", req)
       IN  \/ /\ check # "ok"
              /\ proc' = [proc EXCEPT ![p] =
                   [me EXCEPT !.pc = "done", !.resp = Response(400, check, <<>>)]]
           \/ /\ check = "ok"
              /\ existing # {}
              /\ \E k \in existing :
                   proc' = [proc EXCEPT ![p] =
                     [me EXCEPT !.pc = "done",
                                !.resp = Response(409, "DUPLICATE_TABLE",
                                   [displayName |-> req.displayName,
                                    existingSchemaId |-> k[2]])]]
           \/ /\ check = "ok"
              /\ existing = {}
              /\ proc' = [proc EXCEPT ![p] = [me EXCEPT !.pc = "cs_set"]]
  /\ calls' = calls + 1
  /\ UNCHANGED <<schemas, records, clock, nextId>>

\* createSchema: the name, the identifier and the set() of the document
CreateSchemaSet(p) ==
  /\ proc[p].pc = "cs_set"
  /\ \E now \in Nows :
       LET req == proc[p].req
           schemaId == generateSchemaId(nextId)
           doc == SchemaDoc(schemaId, req.appId, req.appPrefix, req.displayName,
                            req.fields, req.userId, now)
       IN  /\ schemas' = Put(schemas, <<req.appPrefix, schemaId>>, doc)
           /\ Finish(p, Response(201, "CREATED", doc))
           /\ clock' = now
  /\ nextId' = nextId + 1
  /\ UNCHANGED <<records, calls>>

(***************************************************************************)
(* Record engine: createRecord, updateRecord                               *)
(***************************************************************************)
\* doc(id).set(data), doc(id).update(data), doc(id).delete() on a set of documents
SetDoc(recs, coll, id, doc) ==
  {r \in recs : ~(r[1] = id /\ r[2] = coll)} \cup {<<id, coll, doc>>}

SchemaKey(req) == <<req.appPrefix, req.schemaId>>
NotFound(code, req) == Response(404, code, [schemaId |-> req.schemaId, appId |-> req.appId])
InternalError == Response(500, "INTERNAL_ERROR", <<>>)

\* createRecord up to the read of the schema, and the validation that follows
CreateRecordValidated(p, me, schema, cleanedData, validation) ==
  IF ~validation.valid
    THEN Reply(p, me, Response(400, "VALIDATION_ERROR", validation.errors))
  ELSE proc' = [proc EXCEPT ![p] =
         [me EXCEPT !.pc = "cr_set", !.schema = schema, !.work = cleanedData]]
CreateRecordCleaned(p, me, schema, cleanedData) ==
  CreateRecordValidated(p, me, schema, cleanedData, validateRecord(cleanedData, schema.fields))
CreateRecordCall(p, Inputs) ==
  /\ Ready(p)
  /\ \E req \in Inputs :
       IF req.appId = <<>> \/ req.schemaId = <<>> \/ req.userId = <<>>
            \/ ~req.hasData \/ req.appPrefix = <<>>
         THEN Reply(p, Start(p, "createRecord", req), Response(400, "INVALID_INPUT", <<>>))
       ELSE IF SchemaKey(req) \notin DOMAIN schemas
         THEN Reply(p, Start(p, "createRecord", req), NotFound("SCHEMA_NOT_FOUND", req))
       ELSE CreateRecordCleaned(p, Start(p, "createRecord", req), schemas[SchemaKey(req)],
                                stripSystemFields(req.data))
  /\ calls' = calls + 1
  /\ UNCHANGED <<schemas, records, clock, nextId>>

\* createRecord: the identifier, the system fields and the set() of the record
CreateRecordSet(p) ==
  /\ proc[p].pc = "cr_set"
  /\ \E now \in Nows :
       LET recordId == generateRecordId(nextId)
           recordToSave == Spread(Prop(Chars("id"), Str(recordId)),
                                  addSystemFieldsForCreate(proc[p].work, proc[p].req.userId, now))
       IN  /\ records' = SetDoc(records, proc[p].schema.internalName, recordId, recordToSave)
           /\ proc' = [proc EXCEPT ![p].pc = "cr_count", ![p].out = recordToSave,
                                   ![p].tx = Append(@, 1)]
           /\ clock' = now
  /\ nextId' = nextId + 1
  /\ UNCHANGED <<schemas, calls>>

\* a variant that adds one to the count the schema document holds now
CreateRecordCountAtomic(p) ==
  /\ proc[p].pc = "cr_count"
  /\ LET key == SchemaKey(proc[p].req)
     IN  IF key \in DOMAIN schemas
           THEN \E now \in Nows :
                  /\ schemas' = [schemas EXCEPT
                                   ![key].recordCount = @ + 1,
                                   ![key].updatedAt = now]
                  /\ clock' = now
                  /\ Finish(p, Response(201, "CREATED", proc[p].out))
           ELSE /\ Finish(p, InternalError)
                /\ UNCHANGED <<schemas, clock>>
  /\ UNCHANGED <<records, nextId, calls>>
\* createRecord: the update() of the schema's record count
CreateRecordCount(p) ==
  /\ proc[p].pc = "cr_count"
  /\ LET key == SchemaKey(proc[p].req)
     IN  IF key \in DOMAIN schemas
           THEN \E now \in Nows :
                  /\ schemas' = [schemas EXCEPT
                                   ![key].recordCount = proc[p].schema.recordCount + 1,
                                   ![key].updatedAt = now]
                  /\ clock' = now
                  /\ Finish(p, Response(201, "CREATED", proc[p].out))
           ELSE /\ Finish(p, InternalError)
                /\ UNCHANGED <<schemas, clock>>
  /\ UNCHANGED <<records, nextId, calls>>

\* updateRecord up to the read of the schema
UpdateRecordCall(p, Inputs) ==
  /\ Ready(p)
  /\ \E req \in Inputs :
       IF req.appId = <<>> \/ req.schemaId = <<>> \/ req.userId = <<>>
            \/ ~req.hasData \/ req.appPrefix = <<>>
         THEN Reply(p, Start(p, "updateRecord", req), Response(400, "INVALID_INPUT", <<>>))
       ELSE IF SchemaKey(req) \notin DOMAIN schemas
         THEN Reply(p, Start(p, "updateRecord", req), NotFound("SCHEMA_NOT_FOUND", req))
       ELSE proc' = [proc EXCEPT ![p] =
              [Start(p, "updateRecord", req) EXCEPT
                 !.pc = "ur_get", !.schema = schemas[SchemaKey(req)]]]
  /\ calls' = calls + 1
  /\ UNCHANGED <<schemas, records, clock, nextId>>

\* updateRecord: the read of the record, and the validation that follows
UpdateRecordValidated(p, cleanedData, validation) ==
  IF ~validation.valid
    THEN Finish(p, Response(400, "VALIDATION_ERROR", validation.errors))
  ELSE proc' = [proc EXCEPT ![p].pc = "ur_update", ![p].work = cleanedData]
UpdateRecordCleaned(p, cleanedData) ==
  UpdateRecordValidated(p, cleanedData, validateRecord(cleanedData, proc[p].schema.fields))
UpdateRecordGet(p) ==
  /\ proc[p].pc = "ur_get"
  /\ IF ~HasDoc(proc[p].schema.internalName, proc[p].req.recordId)
       THEN Finish(p, Response(404, "RECORD_NOT_FOUND",
                               [recordId |-> proc[p].req.recordId,
                                schemaId |-> proc[p].req.schemaId]))
     ELSE UpdateRecordCleaned(p, stripSystemFields(proc[p].req.data))
  /\ UNCHANGED <<schemas, records, clock, nextId, calls>>

\* updateRecord: the update() of the record with the refreshed system fields
UpdateRecordWrite(p) ==
  /\ proc[p].pc = "ur_update"
  /\ LET coll == proc[p].schema.internalName
         id == proc[p].req.recordId
     IN  IF HasDoc(coll, id)
           THEN \E now \in Nows :
                  LET updates == addSystemFieldsForUpdate(proc[p].work, proc[p].req.userId, now)
                  IN  /\ records' = SetDoc(records, coll, id, Spread(Doc(coll, id), updates))
                      /\ proc' = [proc EXCEPT ![p].pc = "ur_read", ![p].tx = Append(@, 1)]
                      /\ clock' = now
           ELSE /\ Finish(p, InternalError)
                /\ UNCHANGED <<records, clock>>
  /\ UNCHANGED <<schemas, nextId, calls>>

\* updateRecord: the read of the updated record for the response
UpdateRecordRead(p) ==
  /\ proc[p].pc = "ur_read"
  /\ LET coll == proc[p].schema.internalName
         id == proc[p].req.recordId
     IN  Finish(p, Response(200, "OK", IF HasDoc(coll, id) THEN Doc(coll, id) ELSE NoData))
  /\ UNCHANGED <<schemas, records, clock, nextId, calls>>

(***************************************************************************)
(* Bulk operations: bulkCreateRecords, bulkUpdateRecords, bulkDeleteRecords*)
(***************************************************************************)
BulkCreateMax == 1000
BulkUpdateMax == 500
BulkDeleteMax == 500
BatchSize == 500
ErrorSample == 10

\* array.slice(0, n)
Slice(s, n) == SubSeq(s, 1, IF Len(s) < n THEN Len(s) ELSE n)
\* the indices of s, in order, whose element satisfies Test
Indices(s, Test(_)) == SelectSeq([i \in 1..Len(s) |-> i], Test)

\* the requests of the three bulk calls: the list is absent, not an array,
\* or an array
\* a variant whose ceiling is exclusive
BulkInputCheckExclusive(req, max, needsUser) ==
  IF req.appId = <<>> \/ req.schemaId = <<>> \/ req.appPrefix = <<>>
       \/ (needsUser /\ req.userId = <<>>) \/ req.list = "absent"
    THEN "INVALID_INPUT"
  ELSE IF req.list # "array" THEN "INVALID_INPUT"
  ELSE IF Len(req.items) = 0 THEN "INVALID_INPUT"
  ELSE IF Len(req.items) >= max THEN "BULK_LIMIT_EXCEEDED"
  ELSE "ok"
\* bulkDeleteRecords does not ask for a userId
BulkInputCheck(req, max, needsUser) ==
  IF req.appId = <<>> \/ req.schemaId = <<>> \/ req.appPrefix = <<>>
       \/ (needsUser /\ req.userId = <<>>) \/ req.list = "absent"
    THEN "INVALID_INPUT"
  ELSE IF req.list # "array" THEN "INVALID_INPUT"
  ELSE IF Len(req.items) = 0 THEN "INVALID_INPUT"
  ELSE IF Len(req.items) > max THEN "BULK_LIMIT_EXCEEDED"
  ELSE "ok"

\* bulkCreateRecords: the checks, the read of the schema, the validation of
\* every record
\* a variant that inserts the records that passed and skips the others
BulkCreateSkipInvalid(p, me, req, schema, cleaned, validation, bad, good) ==
  IF Len(good) = 0
    THEN Reply(p, me, Response(400, "VALIDATION_ERROR",
               [validRecords |-> 0, invalidRecords |-> Len(bad), errors |-> <<>>]))
  ELSE proc' = [proc EXCEPT ![p] =
         [me EXCEPT !.pc = "bc_commit", !.schema = schema,
                    !.work = chunkArray([j \in 1..Len(good) |-> cleaned[good[j]]],
                                        BatchSize)]]
BulkCreateSorted(p, me, req, schema, cleaned, validation, bad, good) ==
  IF Len(bad) > 0
    THEN Reply(p, me, Response(400, "VALIDATION_ERROR",
               [validRecords |-> Len(good),
                invalidRecords |-> Len(bad),
                errors |-> [j \in 1..Len(Slice(bad, ErrorSample)) |->
                              [index |-> bad[j] - 1, data |-> req.items[bad[j]],
                               errors |-> validation[bad[j]].errors]]]))
  ELSE proc' = [proc EXCEPT ![p] =
         [me EXCEPT !.pc = "bc_commit", !.schema = schema,
                    !.work = chunkArray([j \in 1..Len(good) |-> cleaned[good[j]]],
                                        BatchSize)]]
BulkCreateValidated(p, me, req, schema, cleaned, validation) ==
  BulkCreateSorted(p, me, req, schema, cleaned, validation,
                   Indices(req.items, LAMBDA i : ~validation[i].valid),
                   Indices(req.items, LAMBDA i : validation[i].valid))
BulkCreateCleaned(p, me, req, schema, cleaned) ==
  BulkCreateValidated(p, me, req, schema, cleaned,
                      [i \in 1..Len(cleaned) |-> validateRecord(cleaned[i], schema.fields)])
BulkCreateChecked(p, me, req, check) ==
  IF check # "ok" THEN Reply(p, me, Response(400, check, <<>>))
  ELSE IF SchemaKey(req) \notin DOMAIN schemas
    THEN Reply(p, me, NotFound("SCHEMA_NOT_FOUND", req))
  ELSE BulkCreateCleaned(p, me, req, schemas[SchemaKey(req)],
                         [i \in 1..Len(req.items) |-> stripSystemFields(req.items[i])])
BulkCreateCall(p, Inputs) ==
  /\ Ready(p)
  /\ \E req \in Inputs :
       BulkCreateChecked(p, Start(p, "bulkCreate", req), req,
                         BulkInputCheck(req, BulkCreateMax, TRUE))
  /\ calls' = calls + 1
  /\ UNCHANGED <<schemas, records, clock, nextId>>

\* the documents one write batch of new records sets: the j-th record of the
\* batch takes the j-th identifier drawn from firstId on
NewRecords(coll, batch, userId, firstId, now) ==
  {<<generateRecordId(firstId + j - 1), coll,
     Spread(Prop(Chars("id"), Str(generateRecordId(firstId + j - 1))),
            addSystemFieldsForCreate(batch[j], userId, now))>> : j \in 1..Len(batch)}

\* bulkCreateRecords: the next batch is built and committed
BulkCreateCommit(p) ==
  /\ proc[p].pc = "bc_commit"
  /\ \E now \in Nows :
       LET batch == proc[p].work[Len(proc[p].tx) + 1]
       IN  /\ records' = records \cup NewRecords(proc[p].schema.internalName, batch,
                                                 proc[p].req.userId, nextId, now)
           /\ nextId' = nextId + Len(batch)
           /\ proc' = [proc EXCEPT
                 ![p].tx = Append(@, Len(batch)),
                 ![p].n = @ + Len(batch),
                 ![p].pc = IF Len(proc[p].tx) + 1 = Len(proc[p].work)
                             THEN "bc_count" ELSE "bc_commit"]
           /\ clock' = now
  /\ UNCHANGED <<schemas, calls>>

\* bulkCreateRecords: the update() of the schema's record count
BulkCreateCount(p) ==
  /\ proc[p].pc = "bc_count"
  /\ LET key == SchemaKey(proc[p].req)
     IN  IF key \in DOMAIN schemas
           THEN \E now \in Nows :
                  /\ schemas' = [schemas EXCEPT
                                   ![key].recordCount = proc[p].schema.recordCount + proc[p].n,
                                   ![key].updatedAt = now]
                  /\ clock' = now
                  /\ Finish(p, Response(201, "CREATED",
                            [insertedCount |-> proc[p].n,
                             totalRequested |-> Len(proc[p].req.items), failed |-> 0]))
           ELSE /\ Finish(p, InternalError)
                /\ UNCHANGED <<schemas, clock>>
  /\ UNCHANGED <<records, nextId, calls>>

\* bulkUpdateRecords: the checks, the read of the schema, the validation of
\* every update; an update without recordId or data is an error of its own
BulkUpdateSorted(p, me, req, schema, cleaned, validation, bad, good) ==
  IF Len(bad) > 0
    THEN Reply(p, me, Response(400, "VALIDATION_ERROR",
               [validUpdates |-> Len(good),
                invalidUpdates |-> Len(bad),
                errors |-> [j \in 1..Len(Slice(bad, ErrorSample)) |->
                              [index |-> bad[j] - 1,
                               recordId |-> req.items[bad[j]].recordId,
                               errors |-> validation[bad[j]].errors]]]))
  ELSE proc' = [proc EXCEPT ![p] =
         [me EXCEPT !.pc = "bu_commit", !.schema = schema,
                    !.work = chunkArray([j \in 1..Len(good) |->
                                           [recordId |-> req.items[good[j]].recordId,
                                            data |-> cleaned[good[j]]]],
                                        BatchSize)]]
BulkUpdateValidated(p, me, req, schema, cleaned, validation) ==
  BulkUpdateSorted(p, me, req, schema, cleaned, validation,
                   Indices(req.items, LAMBDA i : ~validation[i].valid),
                   Indices(req.items, LAMBDA i : validation[i].valid))
BulkUpdateCleaned(p, me, req, schema, cleaned) ==
  BulkUpdateValidated(p, me, req, schema, cleaned,
    [i \in 1..Len(cleaned) |->
       IF req.items[i].recordId = <<>> \/ ~req.items[i].hasData
         THEN [valid |-> FALSE, errors |-> <<>>]
         ELSE validateRecord(cleaned[i], schema.fields)])
BulkUpdateChecked(p, me, req, check) ==
  IF check # "ok" THEN Reply(p, me, Response(400, check, <<>>))
  ELSE IF SchemaKey(req) \notin DOMAIN schemas
    THEN Reply(p, me, NotFound("SCHEMA_NOT_FOUND", req))
  ELSE BulkUpdateCleaned(p, me, req, schemas[SchemaKey(req)],
                         [i \in 1..Len(req.items) |-> stripSystemFields(req.items[i].data)])
BulkUpdateCall(p, Inputs) ==
  /\ Ready(p)
  /\ \E req \in Inputs :
       BulkUpdateChecked(p, Start(p, "bulkUpdate", req), req,
                         BulkInputCheck(req, BulkUpdateMax, TRUE))
  /\ calls' = calls + 1
  /\ UNCHANGED <<schemas, records, clock, nextId>>

\* the updates of a write batch applied to one document, in the batch's
\* order: an attribute takes the value of the last update that names it
LastWrites(doc, datas, keys) ==
  [k \in (DOMAIN doc) \cup keys |->
     IF k \in keys THEN datas[Max({i \in 1..Len(datas) : k \in DOMAIN datas[i]})][k]
     ELSE doc[k]]
MergedWrites(doc, datas) ==
  LastWrites(doc, datas, UNION {DOMAIN datas[i] : i \in 1..Len(datas)})
ApplyUpdates(doc, ups, userId, now) ==
  MergedWrites(doc, [i \in 1..Len(ups) |-> addSystemFieldsForUpdate(ups[i].data, userId, now)])

\* bulkUpdateRecords: the next batch is built and committed; the commit of a
\* batch that updates a missing document fails as a whole
BulkUpdateCommit(p) ==
  /\ proc[p].pc = "bu_commit"
  /\ LET batch == proc[p].work[Len(proc[p].tx) + 1]
         coll == proc[p].schema.internalName
         ids == {batch[j].recordId : j \in 1..Len(batch)}
     IN  IF \A id \in ids : HasDoc(coll, id)
           THEN \E now \in Nows :
                  /\ records' =
                       {IF r[2] = coll /\ r[1] \in ids
                          THEN <<r[1], r[2],
                                 ApplyUpdates(r[3],
                                    SelectSeq(batch, LAMBDA u : u.recordId = r[1]),
                                    proc[p].req.userId, now)>>
                          ELSE r : r \in records}
                  /\ clock' = now
                  /\ IF Len(proc[p].tx) + 1 = Len(proc[p].work)
                       THEN proc' = [proc EXCEPT
                              ![p].tx = Append(@, Len(batch)),
                              ![p].pc = "done",
                              ![p].resp = Response(200, "OK",
                                 [updatedCount |-> proc[p].n + Len(batch),
                                  totalRequested |-> Len(proc[p].req.items),
                                  failed |-> 0])]
                       ELSE proc' = [proc EXCEPT ![p].tx = Append(@, Len(batch)),
                                                 ![p].n = @ + Len(batch)]
           ELSE /\ Finish(p, InternalError)
                /\ UNCHANGED <<records, clock>>
  /\ UNCHANGED <<schemas, nextId, calls>>

\* bulkDeleteRecords: the checks and the read of the schema
BulkDeleteCall(p, Inputs) ==
  /\ Ready(p)
  /\ \E req \in Inputs :
       LET me == Start(p, "bulkDelete", req)
           check == BulkInputCheck(req, BulkDeleteMax, FALSE)
           done(resp) == proc' = [proc EXCEPT ![p] = [me EXCEPT !.pc = "done", !.resp = resp]]
       IN  IF check # "ok" THEN done(Response(400, check, <<>>))
           ELSE IF SchemaKey(req) \notin DOMAIN schemas
             THEN done(NotFound("SCHEMA_NOT_FOUND", req))
           ELSE proc' = [proc EXCEPT ![p] =
                  [me EXCEPT !.pc = "bd_commit", !.schema = schemas[SchemaKey(req)],
                             !.work = chunkArray(req.items, BatchSize)]]
  /\ calls' = calls + 1
  /\ UNCHANGED <<schemas, records, clock, nextId>>

\* bulkDeleteRecords: the next batch of delete() is committed
BulkDeleteCommit(p) ==
  /\ proc[p].pc = "bd_commit"
  /\ LET batch == proc[p].work[Len(proc[p].tx) + 1]
         coll == proc[p].schema.internalName
         ids == {batch[j] : j \in 1..Len(batch)}
     IN  /\ records' = {r \in records : ~(r[2] = coll /\ r[1] \in ids)}
         /\ proc' = [proc EXCEPT
               ![p].tx = Append(@, Len(batch)),
               ![p].n = @ + Len(batch),
               ![p].pc = IF Len(proc[p].tx) + 1 = Len(proc[p].work)
                           THEN "bd_count" ELSE "bd_commit"]
  /\ UNCHANGED <<schemas, clock, nextId, calls>>

\* Math.max(0, (recordCount || deletedCount) - deletedCount)
CountAfterDelete(recordCount, deletedCount) ==
  LET base == IF recordCount = 0 THEN deletedCount ELSE recordCount
  IN  IF base - deletedCount < 0 THEN 0 ELSE base - deletedCount

\* bulkDeleteRecords: the update() of the schema's record count
BulkDeleteCount(p) ==
  /\ proc[p].pc = "bd_count"
  /\ LET key == SchemaKey(proc[p].req)
     IN  IF key \in DOMAIN schemas
           THEN \E now \in Nows :
                  /\ schemas' = [schemas EXCEPT
                                   ![key].recordCount =
                                      CountAfterDelete(proc[p].schema.recordCount, proc[p].n),
                                   ![key].updatedAt = now]
                  /\ clock' = now
                  /\ Finish(p, Response(200, "OK",
                            [deletedCount |-> proc[p].n,
                             totalRequested |-> Len(proc[p].req.items)]))
           ELSE /\ Finish(p, InternalError)
                /\ UNCHANGED <<schemas, clock>>
  /\ UNCHANGED <<records, nextId, calls>>

(***************************************************************************)
(* CSV import: importCSV, importCSVCreateNewTable, importCSVAppendToTable  *)
(***************************************************************************)
\* the checks of importCSV before the text is parsed: "ok" or the error code
importCSVCheck(req) ==
  IF ~validateCSVFile(req.file) THEN "CSV_PARSE_ERROR"
  ELSE IF req.appId = <<>> \/ req.appPrefix = <<>> \/ req.userId = <<>>
    THEN "INVALID_INPUT"
  ELSE IF req.createNewTable /\ req.displayName = <<>> THEN "INVALID_INPUT"
  ELSE IF ~req.createNewTable /\ req.schemaId = <<>> THEN "INVALID_INPUT"
  ELSE "ok"

\* the field definitions importCSVCreateNewTable infers, one per header
InferredFields(parsed) ==
  [h \in 1..Len(parsed.headers) |->
     LET columnData == [k \in 1..Len(parsed.rows) |-> parsed.rows[k][parsed.headers[h]]]
         detected == detectFieldType(columnData)
     IN  [name |-> parsed.headers[h], type |-> detected.type,
          required |-> FALSE, options |-> detected.options]]

\* rows.map(row => ({ id: generateRecordId(), ...addSystemFieldsForCreate(row, userId) }))
RecordsToInsert(rows, userId, firstId, now) ==
  [j \in 1..Len(rows) |->
     Spread(Prop(Chars("id"), Str(generateRecordId(firstId + j - 1))),
            addSystemFieldsForCreate(rows[j], userId, now))]

\* importCSV with createNewTable: the checks, the parse, the inference, the
\* set() of the schema document and the records to insert
ImportNewTableSet(p, me, req, rows, now, schemaIdNew, schemaData) ==
  /\ schemas' = Put(schemas, <<req.appPrefix, schemaIdNew>>, schemaData)
  /\ clock' = now
  /\ nextId' = nextId + 1 + Len(rows)
  /\ proc' = [proc EXCEPT ![p] =
       [me EXCEPT !.pc = "ic_commit",
                  !.req = [req EXCEPT !.schemaId = schemaIdNew],
                  !.schema = schemaData,
                  !.work = chunkArray(RecordsToInsert(rows, req.userId, nextId + 1, now),
                                      BatchSize),
                  !.out = [totalRowsInCSV |-> Len(rows), skippedRows |-> 0,
                           errors |-> <<>>]]]
ImportNewTableFields(p, me, req, rows, fields) ==
  \E now \in Nows :
    ImportNewTableSet(p, me, req, rows, now, generateSchemaId(nextId),
                      SchemaDoc(generateSchemaId(nextId), req.appId, req.appPrefix,
                                req.displayName, fields, req.userId, now))
ImportNewTableParsed(p, me, req, parsed) ==
  IF Len(parsed.rows) = 0
    THEN /\ Reply(p, me, Response(400, "CSV_PARSE_ERROR", <<>>))
         /\ UNCHANGED <<schemas, clock, nextId>>
  ELSE ImportNewTableFields(p, me, req, parsed.rows, InferredFields(parsed))
ImportNewTableChecked(p, me, req, check) ==
  IF check # "ok"
    THEN /\ Reply(p, me, Response(400, check, <<>>))
         /\ UNCHANGED <<schemas, clock, nextId>>
  ELSE ImportNewTableParsed(p, me, req, parseCSV(req.file.buffer))
ImportNewTableCall(p, Inputs) ==
  /\ Ready(p)
  /\ \E req \in Inputs :
       /\ req.createNewTable
       /\ ImportNewTableChecked(p, Start(p, "importNewTable", req), req, importCSVCheck(req))
  /\ calls' = calls + 1
  /\ UNCHANGED records

\* importCSV without createNewTable: the checks, the parse, the read of the
\* schema, the comparison of the headers, the validation of every row and
\* the records to insert
ImportAppendSorted(p, me, req, schema, rows, validation, good, bad) ==
  \E now \in Nows :
    /\ clock' = now
    /\ nextId' = nextId + Len(good)
    /\ proc' = [proc EXCEPT ![p] =
         [me EXCEPT !.pc = IF Len(good) = 0 THEN "ic_count" ELSE "ic_commit",
                    !.schema = schema,
                    !.work = chunkArray(
                               RecordsToInsert([j \in 1..Len(good) |-> rows[good[j]]],
                                               req.userId, nextId, now),
                               BatchSize),
                    !.out = [totalRowsInCSV |-> Len(rows),
                             skippedRows |-> Len(bad),
                             errors |-> [j \in 1..Len(Slice(bad, ErrorSample)) |->
                                           [index |-> bad[j] + 1,
                                            errors |-> validation[bad[j]].errors]]]]]
\* a variant that inserts every row, valid or not
ImportAppendValidatedAll(p, me, req, schema, rows, validation) ==
  ImportAppendSorted(p, me, req, schema, rows, validation,
                     Indices(rows, LAMBDA i : TRUE),
                     Indices(rows, LAMBDA i : FALSE))
ImportAppendValidated(p, me, req, schema, rows, validation) ==
  ImportAppendSorted(p, me, req, schema, rows, validation,
                     Indices(rows, LAMBDA i : validation[i].valid),
                     Indices(rows, LAMBDA i : ~validation[i].valid))
\* a variant that lets headers outside the schema pass
ImportAppendComparedMissing(p, me, req, schema, parsed, missingFields, extraFields) ==
  IF Len(missingFields) > 0
    THEN /\ Reply(p, me, Response(400, "CSV_SCHEMA_MISMATCH",
                    [missingFields |-> missingFields, extraFields |-> extraFields]))
         /\ UNCHANGED <<clock, nextId>>
  ELSE ImportAppendValidated(p, me, req, schema, parsed.rows,
         [i \in 1..Len(parsed.rows) |-> validateRecord(parsed.rows[i], schema.fields)])
ImportAppendCompared(p, me, req, schema, parsed, missingFields, extraFields) ==
  IF Len(missingFields) > 0 \/ Len(extraFields) > 0
    THEN /\ Reply(p, me, Response(400, "CSV_SCHEMA_MISMATCH",
                    [missingFields |-> missingFields, extraFields |-> extraFields]))
         /\ UNCHANGED <<clock, nextId>>
  ELSE ImportAppendValidated(p, me, req, schema, parsed.rows,
         [i \in 1..Len(parsed.rows) |-> validateRecord(parsed.rows[i], schema.fields)])
ImportAppendNamed(p, me, req, schema, parsed, schemaFieldNames) ==
  ImportAppendCompared(p, me, req, schema, parsed,
    SelectSeq(schemaFieldNames, LAMBDA f : f \notin Range(parsed.headers)),
    SelectSeq(parsed.headers, LAMBDA h : h \notin Range(schemaFieldNames)))
ImportAppendParsed(p, me, req, parsed) ==
  IF Len(parsed.rows) = 0
    THEN /\ Reply(p, me, Response(400, "CSV_PARSE_ERROR", <<>>))
         /\ UNCHANGED <<clock, nextId>>
  ELSE IF SchemaKey(req) \notin DOMAIN schemas
    THEN /\ Reply(p, me, NotFound("SCHEMA_NOT_FOUND", req))
         /\ UNCHANGED <<clock, nextId>>
  ELSE ImportAppendNamed(p, me, req, schemas[SchemaKey(req)], parsed,
         [i \in 1..Len(schemas[SchemaKey(req)].fields) |->
            schemas[SchemaKey(req)].fields[i].name])
ImportAppendChecked(p, me, req, check) ==
  IF check # "ok"
    THEN /\ Reply(p, me, Response(400, check, <<>>))
         /\ UNCHANGED <<clock, nextId>>
  ELSE ImportAppendParsed(p, me, req, parseCSV(req.file.buffer))
ImportAppendCall(p, Inputs) ==
  /\ Ready(p)
  /\ \E req \in Inputs :
       /\ ~req.createNewTable
       /\ ImportAppendChecked(p, Start(p, "importAppend", req), req, importCSVCheck(req))
  /\ calls' = calls + 1
  /\ UNCHANGED <<schemas, records>>

\* the document identifier of a record to insert: record.id
RecordKey(record) == record[Chars("id")].v

\* importCSV: the next batch of set() is committed; doc('') is refused before
\* the batch is committed
ImportCommit(p) ==
  /\ proc[p].pc = "ic_commit"
  /\ LET batch == proc[p].work[Len(proc[p].tx) + 1]
         coll == proc[p].schema.internalName
         keys == {RecordKey(batch[j]) : j \in 1..Len(batch)}
         last(k) == batch[Max({j \in 1..Len(batch) : RecordKey(batch[j]) = k})]
     IN  IF \A j \in 1..Len(batch) :
               batch[j][Chars("id")].t = "string" /\ RecordKey(batch[j]) # <<>>
           THEN /\ records' = {r \in records : ~(r[2] = coll /\ r[1] \in keys)}
                                \cup {<<k, coll, last(k)>> : k \in keys}
                /\ proc' = [proc EXCEPT
                      ![p].tx = Append(@, Len(batch)),
                      ![p].n = @ + Len(batch),
                      ![p].pc = IF Len(proc[p].tx) + 1 = Len(proc[p].work)
                                  THEN "ic_count" ELSE "ic_commit"]
           ELSE /\ Finish(p, InternalError)
                /\ UNCHANGED records
  /\ UNCHANGED <<schemas, clock, nextId, calls>>

\* importCSV: the update() of the schema's record count; the new table's
\* count is the inserted count and its modification instant is kept
ImportCount(p) ==
  /\ proc[p].pc = "ic_count"
  /\ LET key == SchemaKey(proc[p].req)
         isNew == proc[p].op = "importNewTable"
     IN  IF key \in DOMAIN schemas
           THEN \E now \in Nows :
                  /\ schemas' = [schemas EXCEPT
                        ![key].recordCount = IF isNew THEN proc[p].n
                                             ELSE proc[p].schema.recordCount + proc[p].n,
                        ![key].updatedAt = IF isNew THEN @ ELSE now]
                  /\ clock' = IF isNew THEN clock ELSE now
                  /\ isNew => now = clock
                  /\ Finish(p, Response(201, "CREATED",
                            IF isNew
                              THEN [schemaId |-> proc[p].req.schemaId,
                                    displayName |-> proc[p].schema.displayName,
                                    internalName |-> proc[p].schema.internalName,
                                    fields |-> proc[p].schema.fields,
                                    insertedRecords |-> proc[p].n,
                                    totalRowsInCSV |-> proc[p].out.totalRowsInCSV,
                                    skippedRows |-> 0]
                              ELSE [schemaId |-> proc[p].req.schemaId,
                                    displayName |-> proc[p].schema.displayName,
                                    insertedRecords |-> proc[p].n,
                                    totalRecords |-> proc[p].schema.recordCount + proc[p].n,
                                    skippedRows |-> proc[p].out.skippedRows,
                                    errors |-> proc[p].out.errors]))
           ELSE /\ Finish(p, InternalError)
                /\ UNCHANGED <<schemas, clock>>
  /\ UNCHANGED <<records, nextId, calls>>

(***************************************************************************)
(* Schema manager: listSchemas, getSchema, deleteSchema                    *)
(***************************************************************************)
\* schemas.sort((a, b) => bTime - aTime) over the snapshot of the query: the
\* sort is stable and the snapshot comes in the order of the document
\* identifiers, which are random draws, so schemas of one second come in any
\* order
SortedNewestFirst(docs) ==
  {seq \in [1..Cardinality(docs) -> docs] :
     /\ \A i, j \in 1..Cardinality(docs) : seq[i] = seq[j] => i = j
     /\ \A i, j \in 1..Cardinality(docs) :
          i < j => Seconds(seq[i].createdAt) >= Seconds(seq[j].createdAt)}
AppSchemas(appPrefix, appId) ==
  {schemas[k] : k \in {x \in DOMAIN schemas : x[1] = appPrefix /\ schemas[x].appId = appId}}

\* listSchemas: the checks, the query and the reply
ListSchemasCall(p, Inputs) ==
  /\ Ready(p)
  /\ \E req \in Inputs :
       IF req.appId = <<>> \/ req.appPrefix = <<>>
         THEN Reply(p, Start(p, "listSchemas", req), Response(400, "INVALID_INPUT", <<>>))
       ELSE \E list \in SortedNewestFirst(AppSchemas(req.appPrefix, req.appId)) :
              Reply(p, Start(p, "listSchemas", req),
                    Response(200, "OK", [schemas |-> list, totalTables |-> Len(list)]))
  /\ calls' = calls + 1
  /\ UNCHANGED <<schemas, records, clock, nextId>>

\* getSchema: the checks, the read and the reply
GetSchemaCall(p, Inputs) ==
  /\ Ready(p)
  /\ \E req \in Inputs :
       IF req.appId = <<>> \/ req.schemaId = <<>> \/ req.appPrefix = <<>>
         THEN Reply(p, Start(p, "getSchema", req), Response(400, "INVALID_INPUT", <<>>))
       ELSE IF SchemaKey(req) \notin DOMAIN schemas
         THEN Reply(p, Start(p, "getSchema", req), NotFound("SCHEMA_NOT_FOUND", req))
       ELSE IF schemas[SchemaKey(req)].appId # req.appId
         THEN Reply(p, Start(p, "getSchema", req), NotFound("SCHEMA_NOT_FOUND", req))
       ELSE Reply(p, Start(p, "getSchema", req), Response(200, "OK", schemas[SchemaKey(req)]))
  /\ calls' = calls + 1
  /\ UNCHANGED <<schemas, records, clock, nextId>>

\* a variant that takes every actor for the owner
NotOwnerNever(schema, userId) == FALSE
\* schema.createdBy !== userId
NotOwner(schema, userId) == schema.createdBy # userId
\* deleteSchema up to the read of the schema and the ownership test;
\* confirmDelete is a value of the request body
DeleteSchemaCall(p, Inputs) ==
  /\ Ready(p)
  /\ \E req \in Inputs :
       IF req.appId = <<>> \/ req.userId = <<>> \/ req.appPrefix = <<>>
            \/ req.confirmDelete \in {Bool(FALSE), Null, Str(<<>>)}
         THEN Reply(p, Start(p, "deleteSchema", req), Response(400, "INVALID_INPUT", <<>>))
       ELSE IF req.confirmDelete # Bool(TRUE)
         THEN Reply(p, Start(p, "deleteSchema", req), Response(400, "INVALID_INPUT", <<>>))
       ELSE IF SchemaKey(req) \notin DOMAIN schemas
         THEN Reply(p, Start(p, "deleteSchema", req), NotFound("SCHEMA_NOT_FOUND", req))
       ELSE IF NotOwner(schemas[SchemaKey(req)], req.userId)
         THEN Reply(p, Start(p, "deleteSchema", req),
                    Response(403, "FORBIDDEN_NOT_OWNER",
                             [userId |-> req.userId,
                              schemaCreatedBy |-> schemas[SchemaKey(req)].createdBy]))
       ELSE proc' = [proc EXCEPT ![p] =
              [Start(p, "deleteSchema", req) EXCEPT
                 !.pc = "ds_snapshot", !.schema = schemas[SchemaKey(req)]]]
  /\ calls' = calls + 1
  /\ UNCHANGED <<schemas, records, clock, nextId>>

\* deleteSchema: the get() of every record of the table
DeleteSchemaSnapshot(p) ==
  /\ proc[p].pc = "ds_snapshot"
  /\ proc' = [proc EXCEPT ![p].pc = "ds_batch",
                          ![p].work = DocIds(proc[p].schema.internalName),
                          ![p].n = Cardinality(DocIds(proc[p].schema.internalName))]
  /\ UNCHANGED <<schemas, records, clock, nextId, calls>>

\* deleteSchema: the one batch that deletes the records of the snapshot
DeleteSchemaBatch(p) ==
  /\ proc[p].pc = "ds_batch"
  /\ records' = {r \in records :
                   ~(r[2] = proc[p].schema.internalName /\ r[1] \in proc[p].work)}
  /\ proc' = [proc EXCEPT ![p].pc = "ds_delete", ![p].tx = Append(@, proc[p].n)]
  /\ UNCHANGED <<schemas, clock, nextId, calls>>

\* deleteSchema: the delete() of the schema document and the reply
DeleteSchemaDelete(p) ==
  /\ proc[p].pc = "ds_delete"
  /\ schemas' = [k \in DOMAIN schemas \ {SchemaKey(proc[p].req)} |-> schemas[k]]
  /\ Finish(p, Response(200, "OK",
              [schemaId |-> proc[p].req.schemaId,
               displayName |-> proc[p].schema.displayName,
               deletedRecords |-> proc[p].n]))
  /\ UNCHANGED <<records, clock, nextId, calls>>

(***************************************************************************)
(* Record engine: deleteRecord                                             *)
(***************************************************************************)
\* deleteRecord up to the read of the schema
DeleteRecordCall(p, Inputs) ==
  /\ Ready(p)
  /\ \E req \in Inputs :
       IF req.appId = <<>> \/ req.schemaId = <<>> \/ req.appPrefix = <<>>
         THEN Reply(p, Start(p, "deleteRecord", req), Response(400, "INVALID_INPUT", <<>>))
       ELSE IF SchemaKey(req) \notin DOMAIN schemas
         THEN Reply(p, Start(p, "deleteRecord", req), NotFound("SCHEMA_NOT_FOUND", req))
       ELSE proc' = [proc EXCEPT ![p] =
              [Start(p, "deleteRecord", req) EXCEPT
                 !.pc = "dr_get", !.schema = schemas[SchemaKey(req)]]]
  /\ calls' = calls + 1
  /\ UNCHANGED <<schemas, records, clock, nextId>>

\* deleteRecord: the read of the record
DeleteRecordGet(p) ==
  /\ proc[p].pc = "dr_get"
  /\ IF ~HasDoc(proc[p].schema.internalName, proc[p].req.recordId)
       THEN Finish(p, Response(404, "RECORD_NOT_FOUND",
                               [recordId |-> proc[p].req.recordId,
                                schemaId |-> proc[p].req.schemaId]))
     ELSE proc' = [proc EXCEPT ![p].pc = "dr_delete"]
  /\ UNCHANGED <<schemas, records, clock, nextId, calls>>

\* deleteRecord: the delete() of the record
DeleteRecordDelete(p) ==
  /\ proc[p].pc = "dr_delete"
  /\ records' = {r \in records :
                   ~(r[2] = proc[p].schema.internalName /\ r[1] = proc[p].req.recordId)}
  /\ proc' = [proc EXCEPT ![p].pc = "dr_count", ![p].tx = Append(@, 1)]
  /\ UNCHANGED <<schemas, clock, nextId, calls>>

\* Math.max(0, (schema.recordCount || 1) - 1)
CountAfterDeleteOne(recordCount) ==
  IF recordCount = 0 THEN 0 ELSE recordCount - 1

\* deleteRecord: the update() of the schema's record count and the reply
DeleteRecordCount(p) ==
  /\ proc[p].pc = "dr_count"
  /\ LET key == SchemaKey(proc[p].req)
     IN  IF key \in DOMAIN schemas
           THEN \E now \in Nows :
                  /\ schemas' = [schemas EXCEPT
                        ![key].recordCount = CountAfterDeleteOne(proc[p].schema.recordCount),
                        ![key].updatedAt = now]
                  /\ clock' = now
                  /\ Finish(p, Response(200, "OK",
                              [deletedRecordId |-> proc[p].req.recordId]))
           ELSE /\ Finish(p, InternalError)
                /\ UNCHANGED <<schemas, clock>>
  /\ UNCHANGED <<records, nextId, calls>>

(***************************************************************************)
(* Record engine: validateRecordData                                       *)
(***************************************************************************)
\* validateRecordData: the checks, the read of the schema, the validation
\* and the reply
ValidateReplied(p, me, validation) ==
  Reply(p, me, Response(200, "OK",
                        [valid |-> validation.valid,
                         errors |-> IF validation.valid THEN <<>> ELSE validation.errors]))
ValidateRecordCall(p, Inputs) ==
  /\ Ready(p)
  /\ \E req \in Inputs :
       IF req.appId = <<>> \/ req.schemaId = <<>> \/ ~req.hasData \/ req.appPrefix = <<>>
         THEN Reply(p, Start(p, "validateRecord", req), Response(400, "INVALID_INPUT", <<>>))
       ELSE IF SchemaKey(req) \notin DOMAIN schemas
         THEN Reply(p, Start(p, "validateRecord", req), NotFound("SCHEMA_NOT_FOUND", req))
       ELSE ValidateReplied(p, [Start(p, "validateRecord", req)
                                  EXCEPT !.schema = schemas[SchemaKey(req)]],
                            validateRecord(stripSystemFields(req.data),
                                           schemas[SchemaKey(req)].fields))
  /\ calls' = calls + 1
  /\ UNCHANGED <<schemas, records, clock, nextId>>

(***************************************************************************)
(* CSV export: exportCSV                                                   *)
(***************************************************************************)
\* recordIds.split(',')
SplitCommas(s) ==
  LineCuts(s, <<0>> \o SelectSeq([i \in 1..Len(s) |-> i], LAMBDA i : s[i] = ",")
                \o <<Len(s) + 1>>)
\* the documents of a snapshot of a whole collection, in the order of their
\* identifiers, which are random draws: any order
SnapshotDocs(coll) ==
  {seq \in [1..Cardinality(DocIds(coll)) -> DocIds(coll)] :
     \A i, j \in 1..Cardinality(DocIds(coll)) : seq[i] = seq[j] => i = j}

\* exportCSV up to the read of the schema
ExportCall(p, Inputs) ==
  /\ Ready(p)
  /\ \E req \in Inputs :
       IF req.appId = <<>> \/ req.schemaId = <<>> \/ req.appPrefix = <<>>
         THEN Reply(p, Start(p, "exportCSV", req), Response(400, "INVALID_INPUT", <<>>))
       ELSE IF SchemaKey(req) \notin DOMAIN schemas
         THEN Reply(p, Start(p, "exportCSV", req), NotFound("SCHEMA_NOT_FOUND", req))
       ELSE proc' = [proc EXCEPT ![p] =
              [Start(p, "exportCSV", req) EXCEPT
                 !.pc = "ex_get", !.schema = schemas[SchemaKey(req)]]]
  /\ calls' = calls + 1
  /\ UNCHANGED <<schemas, records, clock, nextId>>

\* exportCSV: the text of the records read, or RECORD_NOT_FOUND for none
ExportReply(p, ids) ==
  IF Len(ids) = 0
    THEN Finish(p, Response(404, "RECORD_NOT_FOUND", <<>>))
  ELSE Finish(p, Response(200, "OK",
         generateCSV([k \in 1..Len(ids) |-> Doc(proc[p].schema.internalName, ids[k])],
                     [i \in 1..Len(proc[p].schema.fields) |-> proc[p].schema.fields[i].name],
                     proc[p].req.includeSystemFields = Chars("true"))))
\* exportCSV: the read of the records named, or of the whole table; doc('')
\* throws
ExportGet(p) ==
  /\ proc[p].pc = "ex_get"
  /\ IF proc[p].req.recordIds # <<>>
       THEN IF \E i \in 1..Len(SplitCommas(proc[p].req.recordIds)) :
                 SplitCommas(proc[p].req.recordIds)[i] = <<>>
              THEN Finish(p, InternalError)
            ELSE ExportReply(p, SelectSeq(SplitCommas(proc[p].req.recordIds),
                                LAMBDA id : HasDoc(proc[p].schema.internalName, id)))
     ELSE \E ids \in SnapshotDocs(proc[p].schema.internalName) : ExportReply(p, ids)
  /\ UNCHANGED <<schemas, records, clock, nextId, calls>>

(***************************************************************************)
(* Storage failure                                                         *)
(***************************************************************************)
\* a variant that adjusts the record count by the records written so far
FailCounting(p) ==
  /\ proc[p].pc \notin {"idle", "done"}
  /\ Finish(p, InternalError)
  /\ schemas' = [k \in DOMAIN schemas |->
                   IF k = SchemaKey(proc[p].req)
                     THEN [schemas[k] EXCEPT !.recordCount = @ + proc[p].n]
                     ELSE schemas[k]]
  /\ UNCHANGED <<records, clock, nextId, calls>>
\* the storage call a request waits for throws; every handler catches and
\* answers INTERNAL_ERROR, and nothing of the failed call is written
Fail(p) ==
  /\ proc[p].pc \notin {"idle", "done"}
  /\ Finish(p, InternalError)
  /\ UNCHANGED <<schemas, records, clock, nextId, calls>>

(***************************************************************************)
(* Requests                                                                *)
(***************************************************************************)
\* an object literal: kv is a sequence of <<name, value>>
Data(kv) ==
  [n \in {Chars(kv[i][1]) : i \in 1..Len(kv)} |->
     kv[CHOOSE i \in 1..Len(kv) : Chars(kv[i][1]) = n][2]]
Field(name, type, required, options) ==
  [name |-> Chars(name), type |-> type, required |-> required, options |-> options]
S(s) == Str(Chars(s))
N(s) == Num(Chars(s))

Prefix == Chars("ap")
App == Chars("a1")
Seeder == Chars("u0")
Actor == Chars("u1")
ItemsFields == <<Field("name", "text", TRUE, <<>>), Field("price", "number", FALSE, <<>>)>>
\* caller-supplied values under the five system names
Forged ==
  Data(<< <<"id", S("forged")>>, <<"createdBy", S("mallory")>>, <<"createdAt", S("1999")>>,
          <<"updatedBy", S("mallory")>>, <<"updatedAt", S("1999")>> >>)
ForgedValues == {S("forged"), S("mallory"), S("1999")}

SchemaReq(appId, displayName, fields) ==
  [appId |-> appId, appPrefix |-> Prefix, displayName |-> Chars(displayName),
   fields |-> fields, userId |-> Actor]
RecordReq(schemaId, recordId, hasData, data) ==
  [appId |-> App, appPrefix |-> Prefix, schemaId |-> schemaId, userId |-> Actor,
   recordId |-> recordId, hasData |-> hasData, data |-> data]
BulkReq(schemaId, list, items) ==
  [appId |-> App, appPrefix |-> Prefix, schemaId |-> schemaId, userId |-> Actor,
   list |-> list, items |-> items]
Update(recordId, hasData, data) == [recordId |-> recordId, hasData |-> hasData, data |-> data]
CsvFile(text) ==
  [present |-> TRUE, size |-> Len(text), mimetype |-> "text/csv",
   originalname |-> Chars("data.csv"), buffer |-> text]
\* n copies of s, one after another
Repeat(s, n) == [i \in 1..(n * Len(s)) |-> s[((i - 1) % Len(s)) + 1]]
ImportReq(createNewTable, displayName, schemaId, file) ==
  [appId |-> App, appPrefix |-> Prefix, userId |-> Actor, createNewTable |-> createNewTable,
   displayName |-> Chars(displayName), schemaId |-> schemaId, file |-> file]

\* the identifiers the seeded store holds
SeedSchemaId == generateSchemaId(1)
SeedRecordId == generateRecordId(2)

(***************************************************************************)
(* The requests of the concurrent specification                            *)
(***************************************************************************)
ValidItem == Data(<< <<"name", S("ink")>>, <<"price", N("3")>> >>)
InvalidItem == Data(<< <<"price", S("abc")>> >>)
ForgedItem == Spread(Data(<< <<"name", S("cap")>> >>), Forged)

SchemaInputs ==
  {SchemaReq(App, "Items", <<Field("name", "text", FALSE, <<>>)>>),
   SchemaReq(App, "Orders", <<Field("a", "text", FALSE, <<>>), Field("a", "number", FALSE, <<>>)>>),
   SchemaReq(App, "Tags", <<Field("tag", "select", FALSE, <<>>)>>),
   SchemaReq(App, "Big", [i \in 1..(MaxFields + 1) |->
                            [name |-> <<"f">> \o NatChars(i), type |-> "text",
                             required |-> FALSE, options |-> <<>>]]),
   SchemaReq(<<>>, "Items", <<Field("name", "text", FALSE, <<>>)>>)}

CreateInputs ==
  {RecordReq(SeedSchemaId, <<>>, TRUE, ForgedItem),
   RecordReq(SeedSchemaId, <<>>, TRUE, InvalidItem),
   RecordReq(SeedSchemaId, <<>>, FALSE, NoData),
   RecordReq(generateSchemaId(0), <<>>, TRUE, ValidItem)}

UpdateInputs ==
  {RecordReq(SeedSchemaId, SeedRecordId, TRUE, Data(<< <<"price", N("7")>> >>)),
   RecordReq(SeedSchemaId, SeedRecordId, TRUE, ForgedItem),
   RecordReq(SeedSchemaId, SeedRecordId, TRUE, InvalidItem),
   RecordReq(SeedSchemaId, generateRecordId(0), TRUE, ValidItem),
   RecordReq(SeedSchemaId, SeedRecordId, FALSE, NoData)}

BulkCreateInputs ==
  {BulkReq(SeedSchemaId, "array", <<ForgedItem, ValidItem>>),
   BulkReq(SeedSchemaId, "array", <<ValidItem, InvalidItem>>),
   BulkReq(SeedSchemaId, "array", <<>>),
   BulkReq(SeedSchemaId, "absent", <<>>)}

BulkUpdateInputs ==
  {BulkReq(SeedSchemaId, "array", <<Update(SeedRecordId, TRUE, ForgedItem)>>),
   BulkReq(SeedSchemaId, "array",
           <<Update(SeedRecordId, TRUE, ValidItem), Update(<<>>, TRUE, ValidItem)>>),
   BulkReq(SeedSchemaId, "array",
           <<Update(SeedRecordId, TRUE, ValidItem), Update(generateRecordId(0), TRUE, ValidItem)>>),
   BulkReq(SeedSchemaId, "object", <<>>)}

BulkDeleteInputs ==
  {BulkReq(SeedSchemaId, "array", <<SeedRecordId>>),
   BulkReq(generateSchemaId(0), "array", <<SeedRecordId>>)}

Other == Chars("a2")
SchemaQuery(appId, schemaId) == [appId |-> appId, appPrefix |-> Prefix, schemaId |-> schemaId]
ListInputs == {SchemaQuery(App, <<>>), SchemaQuery(<<>>, <<>>)}
GetInputs == {SchemaQuery(App, SeedSchemaId), SchemaQuery(Other, SeedSchemaId)}
DeleteReq(schemaId, userId, confirmDelete) ==
  [appId |-> App, appPrefix |-> Prefix, schemaId |-> schemaId, userId |-> userId,
   confirmDelete |-> confirmDelete]
DeleteSchemaInputs ==
  {DeleteReq(SeedSchemaId, Seeder, Bool(TRUE)),
   DeleteReq(SeedSchemaId, Actor, Bool(TRUE)),
   DeleteReq(SeedSchemaId, Seeder, Bool(FALSE)),
   DeleteReq(SeedSchemaId, Seeder, S("yes"))}
DeleteRecordInputs ==
  {RecordReq(SeedSchemaId, SeedRecordId, FALSE, NoData),
   RecordReq(SeedSchemaId, generateRecordId(0), FALSE, NoData)}
ExportReq(schemaId, recordIds, includeSystemFields) ==
  [appId |-> App, appPrefix |-> Prefix, schemaId |-> schemaId, recordIds |-> recordIds,
   includeSystemFields |-> Chars(includeSystemFields)]
ExportInputs ==
  {ExportReq(SeedSchemaId, <<>>, "true"),
   ExportReq(SeedSchemaId, SeedRecordId \o <<",">> \o generateRecordId(0), "")}

ImportNewInputs ==
  {ImportReq(TRUE, "Items", <<>>, CsvFile(Chars("name,price\npen,5\n"))),
   ImportReq(TRUE, "Flags", <<>>, CsvFile(Chars("flag\ntrue\n"))),
   ImportReq(TRUE, "Pairs", <<>>, CsvFile(Chars("a,a\n1,2\n"))),
   ImportReq(TRUE, "", <<>>, CsvFile(Chars("a\n1\n"))),
   ImportReq(TRUE, "Empty", <<>>, CsvFile(Chars("a\n")))}

ImportAppendInputs ==
  {ImportReq(FALSE, "", SeedSchemaId, CsvFile(Chars("name,price\nbox,3\n,4\n"))),
   ImportReq(FALSE, "", SeedSchemaId, CsvFile(Chars("name,cost\nbox,3\n"))),
   ImportReq(FALSE, "", SeedSchemaId, CsvFile(Chars("name,price,note\nbox,3,x\n"))),
   ImportReq(FALSE, "", SeedSchemaId,
             [CsvFile(Chars("name,price\nbox,3\n")) EXCEPT !.size = MaxCsvBytes + 1])}

(***************************************************************************)
(* The concurrent specification: two workers, small requests               *)
(***************************************************************************)
\* the store after createSchema("Items") and one createRecord by the seeder
SeededSchemas ==
  Put(<<>>, <<Prefix, SeedSchemaId>>,
      [SchemaDoc(SeedSchemaId, App, Prefix, Chars("Items"), ItemsFields, Seeder, 0)
         EXCEPT !.recordCount = 1])
SeededRecords ==
  {<<SeedRecordId, generateInternalTableName(Prefix, Chars("Items"), 0),
     Spread(Prop(Chars("id"), Str(SeedRecordId)),
            addSystemFieldsForCreate(Data(<< <<"name", S("pen")>>, <<"price", N("5")>> >>),
                                     Seeder, 0))>>}

InitStore ==
  \/ schemas = <<>> /\ records = {} /\ nextId = 1
  \/ schemas = SeededSchemas /\ records = SeededRecords /\ nextId = 3

Init ==
  /\ InitStore
  /\ clock = 0
  /\ proc = [p \in Procs |-> Idle]
  /\ calls = 0

Next ==
  \E p \in Procs :
    \/ CreateSchemaCall(p, SchemaInputs)
    \/ CreateSchemaSet(p)
    \/ CreateRecordCall(p, CreateInputs)
    \/ CreateRecordSet(p)
    \/ CreateRecordCount(p)
    \/ UpdateRecordCall(p, UpdateInputs)
    \/ UpdateRecordGet(p)
    \/ UpdateRecordWrite(p)
    \/ UpdateRecordRead(p)
    \/ BulkCreateCall(p, BulkCreateInputs)
    \/ BulkCreateCommit(p)
    \/ BulkCreateCount(p)
    \/ BulkUpdateCall(p, BulkUpdateInputs)
    \/ BulkUpdateCommit(p)
    \/ BulkDeleteCall(p, BulkDeleteInputs)
    \/ BulkDeleteCommit(p)
    \/ BulkDeleteCount(p)
    \/ ImportNewTableCall(p, ImportNewInputs)
    \/ ImportAppendCall(p, ImportAppendInputs)
    \/ ImportCommit(p)
    \/ ImportCount(p)
    \/ ListSchemasCall(p, ListInputs)
    \/ GetSchemaCall(p, GetInputs)
    \/ DeleteSchemaCall(p, DeleteSchemaInputs)
    \/ DeleteSchemaSnapshot(p)
    \/ DeleteSchemaBatch(p)
    \/ DeleteSchemaDelete(p)
    \/ DeleteRecordCall(p, DeleteRecordInputs)
    \/ DeleteRecordGet(p)
    \/ DeleteRecordDelete(p)
    \/ DeleteRecordCount(p)
    \/ ExportCall(p, ExportInputs)
    \/ ExportGet(p)
    \/ Fail(p)

Spec == Init /\ [][Next]_vars

(***************************************************************************)
(* The bulk specification: one worker, lists at and over the ceilings      *)
(***************************************************************************)
\* n valid records, each with a price of its own
Items(n) == [i \in 1..n |-> Data(<< <<"name", S("ink")>>, <<"price", Num(NatChars(i))>> >>)]
\* one valid record followed by eleven that fail validation
MostlyInvalidItems == <<ValidItem>> \o [i \in 1..11 |-> Data(<< <<"price", S("abc")>> >>)]
CreateSizes == {1, 500, 501, 1000, 1001}
BigCreateInputs ==
  {BulkReq(SeedSchemaId, "array", Items(n)) : n \in CreateSizes}
    \cup {BulkReq(SeedSchemaId, "array", MostlyInvalidItems)}

Updates(n) == [i \in 1..n |-> Update(SeedRecordId, TRUE, ValidItem)]
\* one valid update followed by eleven that fail: without recordId, without
\* data, or with invalid data
MostlyInvalidUpdates ==
  <<Update(SeedRecordId, TRUE, ValidItem)>>
    \o [i \in 1..11 |->
          IF i % 3 = 1 THEN Update(<<>>, TRUE, ValidItem)
          ELSE IF i % 3 = 2 THEN Update(SeedRecordId, FALSE, NoData)
          ELSE Update(SeedRecordId, TRUE, InvalidItem)]
UpdateSizes == {500, 501}
BigUpdateInputs ==
  {BulkReq(SeedSchemaId, "array", Updates(n)) : n \in UpdateSizes}
    \cup {BulkReq(SeedSchemaId, "array", MostlyInvalidUpdates)}

DeleteSizes == {500, 501}
BigDeleteInputs ==
  {BulkReq(SeedSchemaId, "array", [i \in 1..n |-> generateRecordId(i + 1)]) :
     n \in DeleteSizes}

\* a header line and n data lines
CsvText(header, line, n) == Chars(header) \o Repeat(Chars(line), n)
ImportRows == 501
BigImportNewInputs ==
  {ImportReq(TRUE, "Stock", <<>>, CsvFile(CsvText("name,price\n", "box,3\n", ImportRows)))}
\* a file of ImportRows valid rows; a file of four rows of which the second
\* lacks the required name and the third has a price that is no number; a
\* file with a blank line before an invalid row; and a file with more invalid
\* rows than the error sample holds
BigImportAppendInputs ==
  {ImportReq(FALSE, "", SeedSchemaId,
             CsvFile(CsvText("name,price\n", "box,3\n", ImportRows))),
   ImportReq(FALSE, "", SeedSchemaId,
             CsvFile(Chars("name,price\nbox,3\n,4\npen,x\ncup,\n"))),
   ImportReq(FALSE, "", SeedSchemaId,
             CsvFile(Chars("name,price\nbox,3\n\n,4\n"))),
   ImportReq(FALSE, "", SeedSchemaId,
             CsvFile(CsvText("name,price\nbox,3\n", ",4\n", ErrorSample + 2)))}

InitBulk ==
  /\ schemas = SeededSchemas
  /\ records = SeededRecords
  /\ nextId = 3
  /\ clock = 0
  /\ proc = [p \in BulkProcs |-> Idle]
  /\ calls = 0

NextBulk ==
  \E p \in BulkProcs :
    \/ BulkCreateCall(p, BigCreateInputs)
    \/ BulkCreateCommit(p)
    \/ BulkCreateCount(p)
    \/ BulkUpdateCall(p, BigUpdateInputs)
    \/ BulkUpdateCommit(p)
    \/ BulkDeleteCall(p, BigDeleteInputs)
    \/ BulkDeleteCommit(p)
    \/ BulkDeleteCount(p)
    \/ ImportNewTableCall(p, BigImportNewInputs)
    \/ ImportAppendCall(p, BigImportAppendInputs)
    \/ ImportCommit(p)
    \/ ImportCount(p)
    \/ Fail(p)

SpecBulk == InitBulk /\ [][NextBulk]_vars

(***************************************************************************)
(* Properties of the bulk batch processor                                  *)
(***************************************************************************)
\* the worker p takes this step, and it is the step that receives a request
Receives(p) == proc[p].pc \in {"idle", "done"} /\ proc'[p] # proc[p]
\* the request passed the checks that come before the validation of items
PastSizeCheck(p, max) ==
  /\ proc'[p].req.list = "array"
  /\ Len(proc'[p].req.items) \in 1..max
  /\ SchemaKey(proc'[p].req) \in DOMAIN schemas
\* the 1-based positions of the items of a bulk request that fail validation
InvalidPositions(op, items, fields) ==
  {i \in 1..Len(items) :
     IF op = "bulkCreate"
       THEN ~validateRecord(stripSystemFields(items[i]), fields).valid
       ELSE \/ items[i].recordId = <<>>
            \/ ~items[i].hasData
            \/ ~validateRecord(stripSystemFields(items[i].data), fields).valid}
\* the k smallest elements of a set of numbers
Smallest(set, k) == {i \in set : Cardinality({j \in set : j < i}) < k}
RejectedWhole(p, invalid) ==
  LET errors == proc'[p].resp.data.errors
      shown == IF Cardinality(invalid) < ErrorSample THEN Cardinality(invalid)
               ELSE ErrorSample
  IN  /\ proc'[p].pc = "done"
      /\ proc'[p].resp.code = "VALIDATION_ERROR"
      /\ Len(errors) = shown
      /\ {errors[j].index + 1 : j \in 1..Len(errors)} = Smallest(invalid, shown)
      /\ \A j \in 1..(Len(errors) - 1) : errors[j].index < errors[j + 1].index
      /\ proc'[p].tx = <<>>
      /\ records' = records
      /\ schemas' = schemas

\* C1: a bulk create or bulk update with at least one item that fails
\* validation (or, for bulk update, lacks recordId or data) is answered
\* VALIDATION_ERROR with the first 10 per-item errors at most, in input order;
\* no write batch is committed, no record is created or changed and the
\* schema, its record count included, is unchanged.
C1_AllOrNothing ==
  [][\A p \in BulkProcs :
       (/\ Receives(p)
        /\ proc'[p].op \in {"bulkCreate", "bulkUpdate"}
        /\ PastSizeCheck(p, IF proc'[p].op = "bulkCreate" THEN BulkCreateMax
                            ELSE BulkUpdateMax)
        /\ InvalidPositions(proc'[p].op, proc'[p].req.items,
                            schemas[SchemaKey(proc'[p].req)].fields) # {})
       => RejectedWhole(p, InvalidPositions(proc'[p].op, proc'[p].req.items,
                                            schemas[SchemaKey(proc'[p].req)].fields))]_vars

\* a bulk update with eleven failing updates was rejected with ten errors
C1_Witness ==
  \E p \in BulkProcs :
    /\ proc[p].op = "bulkUpdate"
    /\ proc[p].pc = "done"
    /\ proc[p].resp.code = "VALIDATION_ERROR"
    /\ proc[p].resp.data.invalidUpdates = 11
    /\ Len(proc[p].resp.data.errors) = 10
    /\ records = SeededRecords

\* C2: a bulk call over its ceiling (1000 creates, 500 updates, 500 deletes)
\* is answered BULK_LIMIT_EXCEEDED and writes nothing: no record and no
\* schema attribute changes; a call of exactly the ceiling is not rejected
\* for its size.
Ceiling(op) ==
  IF op = "bulkCreate" THEN BulkCreateMax
  ELSE IF op = "bulkUpdate" THEN BulkUpdateMax ELSE BulkDeleteMax
C2_Ceilings ==
  [][\A p \in BulkProcs :
       (/\ Receives(p)
        /\ proc'[p].op \in {"bulkCreate", "bulkUpdate", "bulkDelete"}
        /\ proc'[p].req.list = "array")
       => /\ Len(proc'[p].req.items) > Ceiling(proc'[p].op)
               => /\ proc'[p].pc = "done"
                  /\ proc'[p].resp.code = "BULK_LIMIT_EXCEEDED"
                  /\ proc'[p].tx = <<>>
                  /\ records' = records
                  /\ schemas' = schemas
          /\ Len(proc'[p].req.items) = Ceiling(proc'[p].op)
               => proc'[p].resp.code # "BULK_LIMIT_EXCEEDED"]_vars

\* a bulk create of 1001 records was rejected for its size
C2_Witness ==
  \E p \in BulkProcs :
    /\ proc[p].op = "bulkCreate"
    /\ Len(proc[p].req.items) = BulkCreateMax + 1
    /\ proc[p].resp.code = "BULK_LIMIT_EXCEEDED"
    /\ records = SeededRecords
    /\ schemas = SeededSchemas

\* the documents of a collection
DocsOf(recs, coll) == {r \in recs : r[2] = coll}
\* the sum of a sequence of numbers
RECURSIVE Sum(_)
Sum(s) == IF s = <<>> THEN 0 ELSE Head(s) + Sum(Tail(s))
\* the keys of the n identifiers drawn from the counter value first on
DrawnKeys(first, n) == {generateRecordId(i) : i \in first..(first + n - 1)}
\* the keys of the records of the batches a..b of worker p: a bulk create
\* draws them as it commits, an import has drawn them all before the first
\* batch
BatchKeys(p, a, b) ==
  IF proc[p].op = "bulkCreate"
    THEN DrawnKeys(nextId - Sum(proc[p].tx) + Sum(SubSeq(proc[p].tx, 1, a - 1)),
                   Sum([c \in 1..(b - a + 1) |-> Len(proc[p].work[a + c - 1])]))
    ELSE {RecordKey(proc[p].work[c][j]) : <<c, j>> \in
            {cj \in (a..b) \X (1..BatchSize) : cj[2] <= Len(proc[p].work[cj[1]])}}
\* what the caller gave for the j-th record of the c-th batch
BatchItem(p, c, j) == stripSystemFields(proc[p].work[c][j])
\* the data of the records the batches 1..k of worker p hold, in all
BatchData(p, k) ==
  {BatchItem(p, c, j) : <<c, j>> \in
     {cj \in (1..k) \X (1..BatchSize) : cj[2] <= Len(proc[p].work[cj[1]])}}

\* C3: a bulk create of N valid records (1 <= N <= 1000), alone on its
\* schema, commits ceil(N/500) write batches one after another in input
\* order, each of 500 writes at most and all but the last of exactly 500; it
\* stores N new records, and the schema's record count is N more than before
\* the call, written by one update after the last batch.
C3_Chunks ==
  [][\A p \in BulkProcs :
       (proc'[p] # proc[p] /\ proc[p].op = "bulkCreate"
          /\ proc[p].pc \in {"bc_commit", "bc_count"}
          /\ proc'[p].resp.code # "INTERNAL_ERROR")
       => LET total == Len(proc[p].req.items)
              k == Len(proc[p].tx)
              coll == proc[p].schema.internalName
              key == SchemaKey(proc[p].req)
          IN  IF proc[p].pc = "bc_commit"
                THEN \* the next batch: the items k*500+1 .. min((k+1)*500, total)
                     LET size == IF total - k * BatchSize < BatchSize
                                   THEN total - k * BatchSize ELSE BatchSize
                     IN  /\ proc'[p].tx = Append(proc[p].tx, size)
                         /\ records \subseteq records'
                         /\ Cardinality(records' \ records) = size
                         /\ \A j \in 1..size :
                              \E r \in records' \ records :
                                /\ r[1] = generateRecordId(nextId + j - 1)
                                /\ r[2] = coll
                                /\ stripSystemFields(r[3])
                                     = stripSystemFields(proc[p].req.items[k * BatchSize + j])
                         /\ schemas' = schemas
                         /\ proc'[p].pc = IF (k + 1) * BatchSize >= total THEN "bc_count"
                                          ELSE "bc_commit"
                ELSE \* the one update of the count, after the last batch
                     /\ k = (total + BatchSize - 1) \div BatchSize
                     /\ \A c \in 1..(k - 1) : proc[p].tx[c] = BatchSize
                     /\ proc[p].tx[k] <= BatchSize
                     /\ Sum(proc[p].tx) = total
                     /\ {<<r[1], stripSystemFields(r[3])>> :
                            r \in {d \in DocsOf(records, coll) :
                                      d[1] \in DrawnKeys(nextId - total, total)}}
                          = {<<generateRecordId(nextId - total + j - 1),
                               stripSystemFields(proc[p].req.items[j])>> : j \in 1..total}
                     /\ records' = records
                     /\ schemas'[key].recordCount = proc[p].schema.recordCount + total
                     /\ schemas'[key].recordCount = schemas[key].recordCount + total
                     /\ proc'[p].resp.code = "CREATED"
                     /\ proc'[p].resp.data.insertedCount = total]_vars

\* a bulk create of 1000 records ended with two batches of 500 and the count
\* raised from 1 to 1001
C3_Witness ==
  \E p \in BulkProcs :
    /\ proc[p].op = "bulkCreate"
    /\ proc[p].pc = "done"
    /\ proc[p].resp.code = "CREATED"
    /\ proc[p].tx = <<BatchSize, BatchSize>>
    /\ Cardinality(records) = BulkCreateMax + 1
    /\ schemas[SchemaKey(proc[p].req)].recordCount = BulkCreateMax + 1

\* C4: when the commit of batch k of a bulk create or of a CSV import fails
\* after the batches 1..k-1 were committed, the records of those batches stay
\* stored, no record of batch k or of a later batch is stored, the call is
\* answered INTERNAL_ERROR and the schema's record count is the one the call
\* found (for a new table, the 0 it was created with).
C4_ChunkFailure ==
  \A p \in BulkProcs :
    (/\ proc[p].op \in {"bulkCreate", "importNewTable", "importAppend"}
     /\ proc[p].pc = "done"
     /\ proc[p].resp.code = "INTERNAL_ERROR"
     /\ Len(proc[p].tx) < Len(proc[p].work))
    => LET coll == proc[p].schema.internalName
           k == Len(proc[p].tx)
           new == {r \in DocsOf(records, coll) : r[1] \in BatchKeys(p, 1, k)}
           later == BatchKeys(p, k + 1, Len(proc[p].work))
       IN  /\ {stripSystemFields(r[3]) : r \in new} = BatchData(p, k)
           /\ Cardinality(new) = Sum(proc[p].tx)
           /\ \A r \in records : r[1] \notin later
           /\ \A c \in 1..Len(proc[p].tx) : proc[p].tx[c] = Len(proc[p].work[c])
           /\ schemas[SchemaKey(proc[p].req)].recordCount = proc[p].schema.recordCount

\* the second batch of a bulk create of 1000 failed: 500 records are stored
\* and the count is still 1
C4_Witness ==
  \E p \in BulkProcs :
    /\ proc[p].op = "bulkCreate"
    /\ proc[p].pc = "done"
    /\ proc[p].resp.code = "INTERNAL_ERROR"
    /\ proc[p].tx = <<BatchSize>>
    /\ Len(proc[p].work) = 2
    /\ Cardinality(records) = BatchSize + 1
    /\ schemas[SchemaKey(proc[p].req)].recordCount = 1

(***************************************************************************)
(* Properties of the record engine and of the schema manager               *)
(***************************************************************************)
IdName == Chars("id")
CreatedByName == Chars("createdBy")
CreatedAtName == Chars("createdAt")
UpdatedByName == Chars("updatedBy")
UpdatedAtName == Chars("updatedAt")
\* the document of recs with the key and the collection of r
Earlier(recs, r) == CHOOSE old \in recs : old[1] = r[1] /\ old[2] = r[2]
\* the document r was written by a create of the actor userId at the instant
\* now, under an identifier drawn in this step
EngineCreated(r, userId, now) ==
  /\ Range(SYSTEM_FIELDS) \subseteq DOMAIN r[3]
  /\ r[1] \in {generateRecordId(k) : k \in nextId..(nextId' - 1)}
  /\ r[3][IdName] = Str(r[1])
  /\ r[3][CreatedByName] = Str(userId)
  /\ r[3][UpdatedByName] = Str(userId)
  /\ r[3][CreatedAtName] = Instant(now)
  /\ r[3][UpdatedAtName] = Instant(now)
\* the document r was written by an update of the actor userId at the
\* instant now over the document old
EngineUpdated(r, old, userId, now) ==
  /\ r[3][IdName] = old[3][IdName]
  /\ r[3][CreatedByName] = old[3][CreatedByName]
  /\ r[3][CreatedAtName] = old[3][CreatedAtName]
  /\ r[3][UpdatedByName] = Str(userId)
  /\ r[3][UpdatedAtName] = Instant(now)

\* C5: in a single create, single update, bulk create and bulk update, a
\* value the caller gives under one of the five system names never reaches
\* the store: the stored id is the identifier the engine drew, createdBy and
\* updatedBy are the actor of the request, and the instants are the engine's.
C5_SystemFields ==
  [][\A p \in Procs :
       (proc'[p] # proc[p] /\ records' # records
          /\ proc[p].op \in {"createRecord", "bulkCreate", "updateRecord", "bulkUpdate"})
       => \A r \in records' \ records :
            /\ \A n \in Range(SYSTEM_FIELDS) : r[3][n] \notin ForgedValues
            /\ IF proc[p].op \in {"createRecord", "bulkCreate"}
                 THEN EngineCreated(r, proc[p].req.userId, clock')
                 ELSE /\ \E old \in records : old[1] = r[1] /\ old[2] = r[2]
                      /\ EngineUpdated(r, Earlier(records, r), proc[p].req.userId, clock')]_vars

\* a create whose data named all five system attributes stored a record
\* under the identifier the engine drew
C5_Witness ==
  \E p \in Procs :
    /\ proc[p].op = "createRecord"
    /\ proc[p].pc = "done"
    /\ proc[p].resp.code = "CREATED"
    /\ Range(SYSTEM_FIELDS) \subseteq DOMAIN proc[p].req.data
    /\ proc[p].req.data[IdName] = S("forged")
    /\ \E r \in records :
         /\ Str(r[1]) = proc[p].resp.data[IdName]
         /\ r[3][IdName] = Str(r[1])
         /\ r[3][CreatedByName] = Str(Actor)

\* C6 (refuted): every stored record passes validateRecord against the field
\* list of the schema of its collection, whichever path wrote it.
C6_RecordsValid ==
  \A r \in records :
    \A k \in DOMAIN schemas :
      schemas[k].internalName = r[2] => validateRecord(r[3], schemas[k].fields).valid

\* the fields of a schema that the data of an update names
SuppliedFields(fields, data) == SelectSeq(fields, LAMBDA f : f.name \in DOMAIN data)

\* C7 (refuted): an update of an existing record whose data gives some of the
\* schema's fields, each with a valid value, is not refused for its
\* validation, whether the fields it leaves out are required or not.
C7_PartialUpdate ==
  \A p \in Procs :
    (/\ proc[p].op = "updateRecord"
     /\ proc[p].pc = "done"
     /\ proc[p].resp.code = "VALIDATION_ERROR")
    => ~validateRecord(stripSystemFields(proc[p].req.data),
                       SuppliedFields(proc[p].schema.fields,
                                      stripSystemFields(proc[p].req.data))).valid

\* C8: the id, createdBy and createdAt of a record are the ones it was
\* created with: no step changes them while the record exists, whatever the
\* data of the single and bulk updates name.
C8_Immutable ==
  [][\A r \in records' :
       (\E old \in records : old[1] = r[1] /\ old[2] = r[2])
       => /\ r[3][IdName] = Earlier(records, r)[3][IdName]
          /\ r[3][CreatedByName] = Earlier(records, r)[3][CreatedByName]
          /\ r[3][CreatedAtName] = Earlier(records, r)[3][CreatedAtName]]_vars

\* a bulk update that named the system attributes changed the seeded record:
\* the name and the modifier are new, the creator is the seeder
C8_Witness ==
  \E p \in Procs :
    /\ proc[p].op = "bulkUpdate"
    /\ proc[p].resp.code = "OK"
    /\ CreatedByName \in DOMAIN proc[p].req.items[1].data
    /\ \E r \in records :
         /\ r[1] = SeedRecordId
         /\ r[3][Chars("name")] = S("cap")
         /\ r[3][UpdatedByName] = Str(Actor)
         /\ r[3][CreatedByName] = Str(Seeder)
         /\ r[3][CreatedAtName] = Instant(0)

\* C9 (refuted): no two schemas of a namespace have the same appId and the
\* same displayName.
C9_UniqueDisplayName ==
  \A k1, k2 \in DOMAIN schemas :
    (/\ k1[1] = k2[1]
     /\ schemas[k1].appId = schemas[k2].appId
     /\ schemas[k1].displayName = schemas[k2].displayName)
    => k1 = k2

\* C10 (refuted): every schema has between 1 and 50 fields, and their names
\* are pairwise distinct.
C10_FieldLists ==
  \A k \in DOMAIN schemas :
    /\ Len(schemas[k].fields) \in 1..MaxFields
    /\ \A i, j \in 1..Len(schemas[k].fields) :
         schemas[k].fields[i].name = schemas[k].fields[j].name => i = j

(***************************************************************************)
(* Properties of the schema manager's replies and of schema deletion       *)
(***************************************************************************)
\* the payload of a successful reply carries the attribute internalName
CarriesInternalName(op, data) ==
  CASE op \in {"createSchema", "getSchema", "deleteSchema", "importNewTable", "importAppend"}
         -> "internalName" \in DOMAIN data
    [] op = "listSchemas"
         -> \E i \in 1..Len(data.schemas) : "internalName" \in DOMAIN data.schemas[i]
    [] OTHER -> FALSE

\* C11 (refuted): no successful reply of a schema operation or of a CSV
\* import carries the internalName of a schema.
C11_NoInternalName ==
  \A p \in Procs :
    (proc[p].pc = "done" /\ proc[p].resp.status \in {200, 201})
    => ~CarriesInternalName(proc[p].op, proc[p].resp.data)

\* C12 (refuted): no two schemas have the same internalName.
C12_DistinctInternalNames ==
  \A k1, k2 \in DOMAIN schemas :
    schemas[k1].internalName = schemas[k2].internalName => k1 = k2

C14_Cascade ==
  [][\A p \in Procs :
       (/\ proc[p].op = "deleteSchema"
        /\ proc[p].pc # "done"
        /\ proc'[p].pc = "done"
        /\ proc'[p].resp.code = "OK")
       => /\ SchemaKey(proc[p].req) \notin DOMAIN schemas'
          /\ DocsOf(records', proc[p].schema.internalName) = {}]_vars

\* C15: the record count a single create writes is the count it read when
\* the call began plus one, not the count the schema holds when it writes;
\* so two creates that run side by side can both succeed and store their
\* records while the count ends one higher only.
C15_CountReadThenWrite ==
  [][\A p \in Procs :
       (/\ proc[p].op = "createRecord"
        /\ proc[p].pc = "cr_count"
        /\ proc'[p].pc = "done"
        /\ proc'[p].resp.code = "CREATED")
       => /\ schemas'[SchemaKey(proc[p].req)].recordCount = proc[p].schema.recordCount + 1
          /\ records' = records]_vars

\* two creates on the seeded schema both succeeded and both records are
\* stored beside the seeded one, yet the count went from 1 to 2
C15_Witness ==
  /\ \A p \in Procs :
       /\ proc[p].op = "createRecord"
       /\ proc[p].pc = "done"
       /\ proc[p].resp.code = "CREATED"
       /\ proc[p].schema.recordCount = 1
       /\ \E r \in records : r[3] = proc[p].resp.data
  /\ proc["w1"].resp.data # proc["w2"].resp.data
  /\ Cardinality(DocsOf(records, schemas[<<Prefix, SeedSchemaId>>].internalName)) = 3
  /\ schemas[<<Prefix, SeedSchemaId>>].recordCount = 2

(***************************************************************************)
(* Properties of the CSV import in append mode                             *)
(***************************************************************************)
\* the names of the fields of a schema
FieldNames(schema) == {schema.fields[i].name : i \in 1..Len(schema.fields)}
\* the worker p receives an append import that passes the checks of the
\* file and of the request, has a data row, and names a schema that exists
AppendReaches(p) ==
  /\ Receives(p)
  /\ proc'[p].op = "importAppend"
  /\ importCSVCheck(proc'[p].req) = "ok"
  /\ Len(parseCSV(proc'[p].req.file.buffer).rows) > 0
  /\ SchemaKey(proc'[p].req) \in DOMAIN schemas

\* C16: an append import whose set of headers is not the set of the schema's
\* field names is answered CSV_SCHEMA_MISMATCH with the schema fields the
\* header lacks under missingFields and the headers that are no schema field
\* under extraFields; no row is inserted and the record count stays.
C16_HeaderMismatch ==
  [][\A p \in Procs :
       (/\ AppendReaches(p)
        /\ Range(parseCSV(proc'[p].req.file.buffer).headers)
             # FieldNames(schemas[SchemaKey(proc'[p].req)]))
       => /\ proc'[p].pc = "done"
          /\ proc'[p].resp.code = "CSV_SCHEMA_MISMATCH"
          /\ Range(proc'[p].resp.data.missingFields)
               = FieldNames(schemas[SchemaKey(proc'[p].req)])
                   \ Range(parseCSV(proc'[p].req.file.buffer).headers)
          /\ Range(proc'[p].resp.data.extraFields)
               = Range(parseCSV(proc'[p].req.file.buffer).headers)
                   \ FieldNames(schemas[SchemaKey(proc'[p].req)])
          /\ records' = records
          /\ schemas' = schemas
          /\ nextId' = nextId]_vars

\* an append import with the header name,price,note was refused: note is
\* extra, nothing is missing, and the store is the seeded one
C16_Witness ==
  \E p \in Procs :
    /\ proc[p].op = "importAppend"
    /\ proc[p].pc = "done"
    /\ proc[p].resp.code = "CSV_SCHEMA_MISMATCH"
    /\ proc[p].resp.data.missingFields = <<>>
    /\ proc[p].resp.data.extraFields = <<Chars("note")>>
    /\ records = SeededRecords
    /\ schemas = SeededSchemas

\* the indices of the rows of a parsed file that validateRecord accepts for
\* the fields of a schema
ValidRows(rows, fields) ==
  Indices(rows, LAMBDA i : validateRecord(rows[i], fields).valid)
\* the g-th record of the batches of worker p, counted through the batches
PlannedItem(work, g) ==
  stripSystemFields(work[((g - 1) \div BatchSize) + 1][((g - 1) % BatchSize) + 1])
\* the append import of worker p has counted and answers CREATED
AppendCompletes(p) ==
  /\ proc[p].op = "importAppend"
  /\ proc[p].pc = "ic_count"
  /\ proc'[p].pc = "done"
  /\ proc'[p].resp.code = "CREATED"

\* the append import of worker p has validated its rows and holds the
\* batches to commit
AppendHolds(p) ==
  /\ proc[p].op = "importAppend"
  /\ proc[p].pc \in {"ic_commit", "ic_count"}
\* what the call has planned for the rows of the file, of which the rows at
\* the indices valid are the accepted ones
AppendPlans(p, rows, valid) ==
  /\ Len(valid) = 0 => proc[p].pc = "ic_count"
  /\ Sum([c \in 1..Len(proc[p].work) |-> Len(proc[p].work[c])]) = Len(valid)
  /\ [g \in 1..Len(valid) |-> PlannedItem(proc[p].work, g)]
       = [g \in 1..Len(valid) |-> rows[valid[g]]]
  /\ proc[p].out.skippedRows = Len(rows) - Len(valid)
\* what the import has stored and answered when it completes
AppendStored(p, rows, valid, stored, data, key) ==
  /\ data.insertedRecords = Len(valid)
  /\ data.insertedRecords + data.skippedRows = Len(rows)
  /\ Cardinality(stored) = Len(valid)
  /\ {stripSystemFields(r[3]) : r \in stored}
       = {rows[valid[g]] : g \in 1..Len(valid)}
  /\ schemas'[key].recordCount = schemas[key].recordCount + data.insertedRecords
AppendPlansRows(p, rows, fields) == AppendPlans(p, rows, ValidRows(rows, fields))
AppendStoredRows(p, rows, fields, keys) ==
  AppendStored(p, rows, ValidRows(rows, fields),
               {r \in DocsOf(records', proc[p].schema.internalName) : r[1] \in keys},
               proc'[p].resp.data, SchemaKey(proc[p].req))

\* C17: in an append import whose headers match the schema, a data row is
\* inserted if and only if validateRecord accepts it, in file order, whatever
\* the other rows are; the reply's insertedRecords plus skippedRows is the
\* number of parsed data rows; and, with no other writer, the schema's record
\* count grows by insertedRecords.
C17_SkipAndContinue ==
  [][\A p \in BulkProcs :
       /\ (/\ AppendReaches(p)
           /\ Range(parseCSV(proc'[p].req.file.buffer).headers)
                = FieldNames(schemas[SchemaKey(proc'[p].req)]))
          => proc'[p].pc \in {"ic_commit", "ic_count"}
       /\ AppendHolds(p)
          => AppendPlansRows(p, parseCSV(proc[p].req.file.buffer).rows,
                             proc[p].schema.fields)
       /\ AppendCompletes(p)
          => AppendStoredRows(p, parseCSV(proc[p].req.file.buffer).rows,
                              proc[p].schema.fields,
                              BatchKeys(p, 1, Len(proc[p].work)))]_vars

\* an append import of four rows, two of them invalid, has inserted the two
\* valid rows and skipped the other two
C17_Witness ==
  \E p \in BulkProcs :
    /\ proc[p].op = "importAppend"
    /\ proc[p].pc = "done"
    /\ proc[p].resp.code = "CREATED"
    /\ proc[p].resp.data.insertedRecords = 2
    /\ proc[p].resp.data.skippedRows = 2
    /\ proc[p].resp.data.totalRecords = proc[p].schema.recordCount + 2
    /\ Len(proc[p].resp.data.errors) = 2

(***************************************************************************)
(* The CSV specification: a table of one schema is exported and the        *)
(* exported text is imported again; files are imported as new tables       *)
(***************************************************************************)
\* one worker: it exports and then imports, or imports twice
CsvProcs == {"c1"}
\* a table to export: the kind and the options of its second field, and the
\* value each of its records holds there
Case(type, options, values) == [type |-> type, options |-> options, values |-> values]
Colours == <<S("red"), S("blue")>>
\* one stored value, or more, for every kind of the registry
KindCases ==
  {Case("text", <<>>, <<S("pen")>>),
   Case("textarea", <<>>, <<S("a b")>>),
   Case("number", <<>>, <<N("5")>>),
   Case("number", <<>>, <<S("5")>>),
   Case("email", <<>>, <<S("a@b.co")>>),
   Case("phone", <<>>, <<S("0123456789")>>),
   Case("url", <<>>, <<S("http://a.b")>>),
   Case("date", <<>>, <<S("2024-01-05")>>),
   Case("datetime", <<>>, <<S("2024-01-05T10:30")>>),
   Case("boolean", <<>>, <<Bool(TRUE)>>),
   Case("boolean", <<>>, <<Bool(FALSE)>>),
   Case("select", Colours, <<S("red")>>),
   Case("multiselect", Colours, <<Arr(<<S("red")>>)>>),
   Case("multiselect", Colours, <<Arr(<<S("red"), S("blue")>>)>>),
   Case("currency", <<>>, <<N("5")>>),
   Case("percentage", <<>>, <<N("50")>>),
   Case("rating", <<>>, <<N("3")>>),
   Case("color", <<>>, <<S("#A1B2C3")>>),
   Case("file", <<>>, <<S("f.png")>>),
   Case("image", <<>>, <<S("i.png")>>),
   Case("json", <<>>, <<Obj>>),
   Case("json", <<>>, <<S("[1]")>>)}
\* texts with commas, double quotes and newlines in them
QuotedCases ==
  {Case("text", <<>>, <<S("a,b")>>),
   Case("text", <<>>, <<S("say \"hi\"")>>),
   Case("text", <<>>, <<S("a,b"), S("say \"hi\", ok")>>),
   Case("text", <<>>, <<S("a\nb")>>)}
RoundTripCases == KindCases \cup QuotedCases

CaseFields(c) ==
  <<Field("name", "text", TRUE, <<>>), Field("value", c.type, TRUE, c.options)>>
CaseData(c, i) == Data(<< <<"name", S("pen")>>, <<"value", c.values[i]>> >>)
CaseSchemas(c) ==
  Put(<<>>, <<Prefix, SeedSchemaId>>,
      [SchemaDoc(SeedSchemaId, App, Prefix, Chars("Items"), CaseFields(c), Seeder, 0)
         EXCEPT !.recordCount = Len(c.values)])
CaseRecords(c) ==
  {<<generateRecordId(1 + i), generateInternalTableName(Prefix, Chars("Items"), 0),
     Spread(Prop(Chars("id"), Str(generateRecordId(1 + i))),
            addSystemFieldsForCreate(CaseData(c, i), Seeder, 0))>> :
     i \in 1..Len(c.values)}

\* the export of the whole table, without the system fields
RoundTripExports == {ExportReq(SeedSchemaId, <<>>, "")}
\* the texts the exports so far have answered, as files to append to the
\* same schema
Reimports ==
  {ImportReq(FALSE, "", SeedSchemaId, CsvFile(proc[q].resp.data)) :
     q \in {w \in CsvProcs : /\ proc[w].op = "exportCSV"
                          /\ proc[w].pc = "done"
                          /\ proc[w].resp.code = "OK"}}

\* files of one column named c, and of a second one where the first is empty
Column(lines) == CsvFile(Chars("c\n") \o Chars(lines))
InferFiles ==
  {Column("a@b.co\nc@d.org\n"),
   Column("0123456789\n9876543210\n"),
   Column("http://a.b\nftp://c.d\n"),
   Column("1\n0\n1\n"),
   Column("12\n3.5\n"),
   Column("true\nno\n"),
   Column("TRUE\n0\n"),
   Column("2024-01-05\n2023\n"),
   Column("red\nred\nred\n"),
   Column("red\nred\nred\nblue\nblue\n"),
   Column("red\nred\nblue\nblue\n"),
   Column("red\nblue\n"),
   Column("a@b.co\n0123456789\n"),
   Column("1\n2\n3\n4\n5\n6\n7\n8\n9\n10\nabc\n"),
   Column("abc\n1\n2\n3\n4\n5\n6\n7\n8\n9\n10\n"),
   CsvFile(Chars("c,d\n,x\n,y\n"))}
InferInputs == {ImportReq(TRUE, "Stock", <<>>, f) : f \in InferFiles}

InitCsv ==
  /\ \E c \in RoundTripCases :
       /\ \A i \in 1..Len(c.values) : validateRecord(CaseData(c, i), CaseFields(c)).valid
       /\ schemas = CaseSchemas(c)
       /\ records = CaseRecords(c)
       /\ nextId = 2 + Len(c.values)
  /\ clock = 0
  /\ proc = [p \in CsvProcs |-> Idle]
  /\ calls = 0

NextCsv ==
  \E p \in CsvProcs :
    \/ ExportCall(p, RoundTripExports)
    \/ ExportGet(p)
    \/ ImportAppendCall(p, Reimports)
    \/ ImportNewTableCall(p, InferInputs)
    \/ ImportCommit(p)
    \/ ImportCount(p)

SpecCsv == InitCsv /\ [][NextCsv]_vars

(***************************************************************************)
(* Properties of the CSV pipeline                                          *)
(***************************************************************************)
\* the import of worker p, of a text an export has answered, is past its
\* validation of the rows
Reimported(p) ==
  /\ proc[p].op = "importAppend"
  /\ proc[p].pc \in {"ic_commit", "ic_count", "done"}

\* C18: a table whose records hold, for any kind of the registry, values the
\* kind's validator accepts is exported, and the exported text is imported
\* in append mode into the same schema: the import is not refused, no row is
\* skipped and the rows are inserted.
C18_RoundTripValid ==
  \A p \in CsvProcs :
    Reimported(p)
    => /\ proc[p].pc = "done" => proc[p].resp.code = "CREATED"
       /\ proc[p].pc # "done" \/ proc[p].resp.code = "CREATED"
          => /\ proc[p].out.skippedRows = 0
             /\ Len(proc[p].work) >= 1

\* the export of worker p has answered a text, and every value of the
\* exported records is a string
ExportedStrings(p) ==
  /\ proc[p].op = "exportCSV"
  /\ proc[p].pc = "done"
  /\ proc[p].resp.code = "OK"
  /\ \A r \in DocsOf(records, proc[p].schema.internalName) :
       \A i \in 1..Len(proc[p].schema.fields) :
         /\ proc[p].schema.fields[i].name \in DOMAIN r[3]
         /\ r[3][proc[p].schema.fields[i].name].t = "string"
\* parsed has the headers names, and its rows are the documents docs, each
\* cut down to the names
ParsedIs(parsed, names, docs) ==
  /\ parsed.headers = names
  /\ Len(parsed.rows) = Cardinality(docs)
  /\ {parsed.rows[k] : k \in 1..Len(parsed.rows)}
       = {[h \in Range(names) |-> r[3][h]] : r \in docs}

\* C19: for records whose values are strings, with commas, double quotes
\* and newlines in them, parseCSV of the text generateCSV gives returns the
\* same headers, as many rows as there were records, and in each row under
\* each header the original string.
C19_ParseInvertsGenerate ==
  \A p \in CsvProcs :
    ExportedStrings(p)
    => ParsedIs(parseCSV(proc[p].resp.data),
                [i \in 1..Len(proc[p].schema.fields) |-> proc[p].schema.fields[i].name],
                DocsOf(records, proc[p].schema.internalName))

\* the kinds inference tries, in the order it tries them, and the test of
\* each on one sample
KindOrder == <<"email", "phone", "url", "number", "boolean", "date">>
PassesKind(kind, v) ==
  CASE kind = "email" -> IsEmail(v)
    [] kind = "phone" -> IsPhone(v)
    [] kind = "url" -> IsUrl(v)
    [] kind = "number" -> IsNumericString(v) /\ Trim(v) # <<>>
    [] kind = "boolean" -> ToLower(v) \in BoolTokens
    [] kind = "date" -> IsDateString(v)
\* the places of KindOrder whose test every sample passes
Matching(samples) ==
  {k \in 1..Len(KindOrder) : \A i \in 1..Len(samples) : PassesKind(KindOrder[k], samples[i])}
PriorityOf(samples, matching) ==
  IF Len(samples) = 0 THEN "text"
  ELSE IF matching # {} THEN KindOrder[Min(matching)]
  ELSE IF /\ Cardinality(Range(samples)) <= SelectMaxUnique
          /\ 2 * Cardinality(Range(samples)) < Len(samples)
    THEN "select"
  ELSE "text"
PriorityKind(samples) == PriorityOf(samples, Matching(samples))
\* the first SampleSize non-empty cells of the column under the header h
NonEmptyCells(parsed, h) ==
  SelectSeq([k \in 1..Len(parsed.rows) |-> parsed.rows[k][parsed.headers[h]].v],
            LAMBDA v : v # <<>>)
ColumnSamples(parsed, h) == Slice(NonEmptyCells(parsed, h), SampleSize)
\* the import of worker p has inferred the fields of its new table
Inferred(p) ==
  /\ proc[p].op = "importNewTable"
  /\ proc[p].pc \in {"ic_commit", "ic_count"}
       \/ (proc[p].pc = "done" /\ proc[p].resp.code = "CREATED")
InferredAs(type, samples) ==
  /\ type = PriorityKind(samples)
  /\ (Len(samples) > 0 /\ \A i \in 1..Len(samples) : IsPhone(samples[i]))
       => type = "phone"
  /\ (Len(samples) > 0 /\ \A i \in 1..Len(samples) : samples[i] \in {<<"1">>, <<"0">>})
       => type = "number"
  /\ Len(samples) = 0 => type = "text"
FieldsInferred(fields, parsed) ==
  /\ Len(fields) = Len(parsed.headers)
  /\ \A h \in 1..Len(fields) : InferredAs(fields[h].type, ColumnSamples(parsed, h))

RoleRows == 20
\* the rows whose role is Editor; the other rows have the role Admin
EditorRows ==
  {{i \in 1..RoleRows : i % 2 = 0}, {i \in 1..RoleRows : i % 2 = 1},
   (RoleRows \div 2 + 1)..RoleRows, 1..(RoleRows \div 2), {RoleRows}, {1},
   {RoleRows \div 2}, {RoleRows \div 2 + 1}, {5, 15}, 2..RoleRows}
RoleLine(i, editors) ==
  Chars("u") \o NatChars(i) \o Chars("@b.co,0123456789,")
    \o (IF i \in editors THEN Chars("Editor") ELSE Chars("Admin")) \o <<"\n">>
RoleFile(editors) ==
  CsvFile(Chars("email,phone,role\n")
            \o Join([i \in 1..RoleRows |-> RoleLine(i, editors)], <<>>))
RoleInputs == {ImportReq(TRUE, "Staff", <<>>, RoleFile(e)) : e \in EditorRows}

InitRoles ==
  /\ InitStore
  /\ clock = 0
  /\ proc = [p \in CsvProcs |-> Idle]
  /\ calls = 0

NextRoles ==
  \E p \in CsvProcs :
    \/ ImportNewTableCall(p, RoleInputs)
    \/ ImportCommit(p)
    \/ ImportCount(p)

SpecRoles == InitRoles /\ [][NextRoles]_vars

\* parsed has the columns email, phone and role and RoleRows rows; every
\* email matches the pattern, every phone has ten digits, and the roles are
\* Admin and Editor, both occurring
RolesFile(parsed) ==
  /\ parsed.headers = <<Chars("email"), Chars("phone"), Chars("role")>>
  /\ Len(parsed.rows) = RoleRows
  /\ \A k \in 1..Len(parsed.rows) :
       /\ IsEmail(parsed.rows[k][Chars("email")].v)
       /\ IsPhone(parsed.rows[k][Chars("phone")].v)
  /\ {parsed.rows[k][Chars("role")] : k \in 1..Len(parsed.rows)} = {S("Admin"), S("Editor")}
RolesInferred(fields) ==
  /\ fields[1].type = "email"
  /\ fields[2].type = "phone"
  /\ fields[3].type = "select"
  /\ Range(fields[3].options) = {S("Admin"), S("Editor")}

\* C21: a file of twenty rows with the columns email, phone and role, whose
\* emails match the pattern, whose phones have ten digits and whose roles
\* are Admin and Editor, both occurring in any order of the rows, is imported
\* as a new table with email inferred as email, phone as phone, and role as
\* select with the options Admin and Editor and no other.
C21_RolesInferred ==
  \A p \in CsvProcs :
    (Inferred(p) /\ RolesFile(parseCSV(proc[p].req.file.buffer)))
    => RolesInferred(proc[p].schema.fields)

(***************************************************************************)
(* The names specification: schemas are created under display names with   *)
(* spaces, runs of spaces and more than SlugMaxLen characters               *)
(***************************************************************************)
LongName == Repeat(Chars("ab "), 20)
DisplayNames ==
  {Chars("Items"), Chars("My Table"), Chars("My  Table"), Chars("A  B   C"),
   Chars("Orders 2024"), Chars(" x "), LongName}
NameInputs ==
  {[SchemaReq(App, "", <<Field("name", "text", FALSE, <<>>)>>) EXCEPT !.displayName = d] :
     d \in DisplayNames}

InitNames ==
  /\ InitStore
  /\ clock = 0
  /\ proc = [p \in CsvProcs |-> Idle]
  /\ calls = 0

NextNames ==
  \E p \in CsvProcs :
    \/ CreateSchemaCall(p, NameInputs)
    \/ CreateSchemaSet(p)

SpecNames == InitNames /\ [][NextNames]_vars

\* the display name lowercased, every maximal run of characters other than
\* a-z and 0-9 replaced by one underscore, cut to SlugMaxLen characters
RunsCollapsed(low) ==
  SelectSeq([i \in 1..Len(low) |->
               IF low[i] \in (Lowers \cup Digits) THEN low[i]
               ELSE IF i > 1 /\ low[i - 1] \notin (Lowers \cup Digits) THEN ""
               ELSE "_"],
            LAMBDA c : c # "")
CollapsedSlug(displayName) == Slice(RunsCollapsed(ToLower(displayName)), SlugMaxLen)

\* C22: the internal name of a schema is made of the prefix, the hash of
\* (prefix, display name, instant) and the slug, where the slug is the
\* display name lowercased with every maximal run of non-alphanumeric
\* characters replaced by a single underscore and then cut to 50 characters;
\* equal (prefix, display name, instant) give equal names.
C22_InternalName ==
  \A k \in DOMAIN schemas :
    /\ schemas[k].internalName.prefix = schemas[k].appPrefix
    /\ schemas[k].internalName.slug = CollapsedSlug(schemas[k].displayName)
    /\ \A j \in DOMAIN schemas :
         (/\ schemas[j].appPrefix = schemas[k].appPrefix
          /\ schemas[j].displayName = schemas[k].displayName
          /\ schemas[j].createdAt = schemas[k].createdAt)
         => schemas[j].internalName = schemas[k].internalName

(***************************************************************************)
(* The validation specification: records are validated against schemas     *)
(* with required and optional fields of several kinds                      *)
(***************************************************************************)
\* the field lists of the schema: a required and an optional field, optional
\* fields only, two fields of one name, and optional fields that have the
\* name of a method every object has
FieldLists ==
  {ItemsFields,
   <<Field("name", "text", FALSE, <<>>), Field("price", "number", FALSE, <<>>)>>,
   <<Field("name", "email", TRUE, <<>>), Field("name", "text", FALSE, <<>>)>>,
   <<Field("tag", "select", FALSE, Colours), Field("price", "rating", TRUE, <<>>)>>,
   <<Field("constructor", "text", FALSE, <<>>)>>,
   <<Field("name", "text", TRUE, <<>>), Field("toString", "number", FALSE, <<>>)>>}
ValidateData ==
  {NoData,
   Data(<< <<"name", S("")>> >>),
   Data(<< <<"name", Null>>, <<"price", Null>> >>),
   Data(<< <<"name", S("pen")>>, <<"price", S("abc")>> >>),
   Data(<< <<"name", S("a@b.co")>>, <<"price", N("3")>> >>),
   Data(<< <<"tag", S("red")>>, <<"price", N("9")>> >>),
   Data(<< <<"tag", S("")>>, <<"price", S("")>>, <<"id", S("forged")>> >>),
   Data(<< <<"name", S("ink")>>, <<"toString", S("7")>>, <<"constructor", S("x")>> >>)}
ValidateInputs ==
  {RecordReq(SeedSchemaId, <<>>, TRUE, d) : d \in ValidateData}
    \cup {RecordReq(SeedSchemaId, <<>>, FALSE, NoData),
          RecordReq(generateSchemaId(0), <<>>, TRUE, NoData)}

InitValidate ==
  /\ \E fields \in FieldLists :
       /\ \A i \in 1..Len(fields) :
            validateFieldConfig(fields[i]) /\ isValidFieldType(fields[i].type)
       /\ schemas = Put(<<>>, <<Prefix, SeedSchemaId>>,
                        SchemaDoc(SeedSchemaId, App, Prefix, Chars("Items"), fields, Seeder, 0))
  /\ records = {}
  /\ nextId = 2
  /\ clock = 0
  /\ proc = [p \in CsvProcs |-> Idle]
  /\ calls = 0

NextValidate ==
  \E p \in CsvProcs :
    \/ ValidateRecordCall(p, ValidateInputs)
    \/ CreateRecordCall(p, ValidateInputs)
    \/ CreateRecordSet(p)
    \/ CreateRecordCount(p)

SpecValidate == InitValidate /\ [][NextValidate]_vars

\* the value of a field is absent or empty: undefined, null or ''
Absent(data, name) ==
  \/ name \notin DOMAIN data
  \/ data[name].t = "null"
  \/ data[name].t = "string" /\ data[name].v = <<>>
\* the names of the fields that are required and absent, or present and
\* rejected by the validator of their kind
Faulty(data, fields) ==
  {fields[i].name : i \in
     {j \in 1..Len(fields) :
        \/ fields[j].required /\ Absent(data, fields[j].name)
        \/ /\ ~Absent(data, fields[j].name)
           /\ ~Validator(fields[j].type, data[fields[j].name], fields[j].options)}}
\* worker p has answered a validation of the data against the fields
Validated(p) ==
  /\ proc[p].op = "validateRecord"
  /\ proc[p].pc = "done"
  /\ proc[p].resp.code = "OK"
VerdictIs(verdict, data, fields) ==
  /\ verdict.valid <=> verdict.errors = <<>>
  /\ DOMAIN verdict.errors = Faulty(data, fields)
  /\ (data = NoData /\ \A i \in 1..Len(fields) : ~fields[i].required)
       => verdict.valid /\ verdict.errors = <<>>

\* C23: validateRecord answers valid exactly when its error map is empty;
\* the map has an entry for exactly the fields that are required and absent
\* or empty, or that hold a non-empty value their kind's validator rejects;
\* an absent or empty value of a field that is not required gives no entry, so
\* the empty record is valid against fields none of which is required.
C23_ValidateRecord ==
  \A p \in CsvProcs :
    Validated(p)
    => VerdictIs(proc[p].resp.data, stripSystemFields(proc[p].req.data),
                 proc[p].schema.fields)

(***************************************************************************)
(* Record engine: listRecords                                              *)
(***************************************************************************)
\* String(value) of a stored value: a stored Date is read back as a Timestamp
StoredStr(x) ==
  IF x.t = "date"
    THEN Chars("Timestamp(seconds=") \o NatChars(Seconds(x.v[1])) \o Chars(", nanoseconds=")
           \o (IF x.v[1] % TicksPerSecond = 0 THEN <<"0">> ELSE Chars("500000000")) \o <<")">>
  ELSE ToStr(x)
\* Object.values(record).some(value => String(value).toLowerCase().includes(searchLower))
MatchesSearch(doc, searchLower) ==
  \E n \in DOMAIN doc :
    doc[n].t # "null" /\ Includes(ToLower(StoredStr(doc[n])), searchLower)
\* the documents of a collection that have the attribute sortBy, in the
\* order of orderBy(sortBy, order); documents of equal value in the order of
\* their identifiers, which are random draws: any order
OrderedDocs(coll, sortBy, ascending) ==
  LET docs == {r[3] : r \in {x \in DocsOf(records, coll) : sortBy \in DOMAIN x[3]}}
  IN  {seq \in [1..Cardinality(docs) -> docs] :
         /\ \A i, j \in 1..Cardinality(docs) : seq[i] = seq[j] => i = j
         /\ \A i, j \in 1..Cardinality(docs) :
              i < j => IF ascending THEN seq[i][sortBy].v[1] <= seq[j][sortBy].v[1]
                       ELSE seq[i][sortBy].v[1] >= seq[j][sortBy].v[1]}
\* query.limit(pageSizeNum).offset(skip)
PageOf(sorted, skip, limit) ==
  SubSeq(sorted, skip + 1, IF skip + limit < Len(sorted) THEN skip + limit ELSE Len(sorted))
\* Math.ceil(totalRecords / pageSizeNum)
CeilDiv(a, b) == (a + b - 1) \div b

\* listRecords: the checks and the read of the schema
ListRecordsCall(p, Inputs) ==
  /\ Ready(p)
  /\ \E req \in Inputs :
       IF req.appId = <<>> \/ req.schemaId = <<>> \/ req.appPrefix = <<>>
         THEN Reply(p, Start(p, "listRecords", req), Response(400, "INVALID_INPUT", <<>>))
       ELSE IF SchemaKey(req) \notin DOMAIN schemas
         THEN Reply(p, Start(p, "listRecords", req), NotFound("SCHEMA_NOT_FOUND", req))
       ELSE proc' = [proc EXCEPT ![p] =
              [Start(p, "listRecords", req) EXCEPT
                 !.pc = "lr_total", !.schema = schemas[SchemaKey(req)]]]
  /\ calls' = calls + 1
  /\ UNCHANGED <<schemas, records, clock, nextId>>

\* listRecords: the snapshot of the whole collection, for its size
ListRecordsTotal(p) ==
  /\ proc[p].pc = "lr_total"
  /\ proc' = [proc EXCEPT ![p].pc = "lr_query",
                          ![p].n = Cardinality(DocIds(proc[p].schema.internalName))]
  /\ UNCHANGED <<schemas, records, clock, nextId, calls>>

\* listRecords: the page of the ordered query, the search over that page and
\* the reply
\* a variant that counts the records found instead of the table
ListRecordsFilteredCounted(p, pageNum, pageSizeNum, totalRecords, found) ==
  Finish(p, Response(200, "OK",
    [records |-> found,
     pagination |-> [currentPage |-> pageNum,
                     pageSize |-> pageSizeNum,
                     totalRecords |-> Len(found),
                     totalPages |-> CeilDiv(Len(found), pageSizeNum),
                     hasNextPage |-> pageNum < CeilDiv(Len(found), pageSizeNum),
                     hasPreviousPage |-> pageNum > 1]]))
ListRecordsFiltered(p, pageNum, pageSizeNum, totalRecords, found) ==
  Finish(p, Response(200, "OK",
    [records |-> found,
     pagination |-> [currentPage |-> pageNum,
                     pageSize |-> pageSizeNum,
                     totalRecords |-> totalRecords,
                     totalPages |-> CeilDiv(totalRecords, pageSizeNum),
                     hasNextPage |-> pageNum < CeilDiv(totalRecords, pageSizeNum),
                     hasPreviousPage |-> pageNum > 1]]))
ListRecordsPage(p, pageNum, pageSizeNum, page) ==
  ListRecordsFiltered(p, pageNum, pageSizeNum, proc[p].n,
    IF proc[p].req.searchQuery # <<>>
      THEN SelectSeq(page, LAMBDA doc : MatchesSearch(doc, ToLower(proc[p].req.searchQuery)))
    ELSE page)
ListRecordsQuery(p) ==
  /\ proc[p].pc = "lr_query"
  /\ LET pageNum == ParseInt(proc[p].req.page).mag
         pageSizeNum == ParseInt(proc[p].req.pageSize).mag
     IN  \E sorted \in OrderedDocs(proc[p].schema.internalName, proc[p].req.sortBy,
                                   proc[p].req.sortOrder = Chars("asc")) :
           ListRecordsPage(p, pageNum, pageSizeNum,
                           PageOf(sorted, (pageNum - 1) * pageSizeNum, pageSizeNum))
  /\ UNCHANGED <<schemas, records, clock, nextId, calls>>

(***************************************************************************)
(* The listing specification: two workers list the pages of a table of     *)
(* three records, with and without a search, while records are created     *)
(***************************************************************************)
ListReq(schemaId, page, pageSize, sortOrder, searchQuery) ==
  [appId |-> App, appPrefix |-> Prefix, schemaId |-> schemaId, page |-> Chars(page),
   pageSize |-> Chars(pageSize), sortBy |-> Chars("createdAt"),
   sortOrder |-> Chars(sortOrder), searchQuery |-> Chars(searchQuery)]
ListInputsPaged ==
  {ListReq(SeedSchemaId, page, pageSize, sortOrder, searchQuery) :
     page \in {"1", "2", "3"}, pageSize \in {"1", "2"}, sortOrder \in {"asc", "desc"},
     searchQuery \in {"", "pen", "PEN", "u0", "zz"}}
    \cup {ListReq(generateSchemaId(0), "1", "2", "desc", "")}
\* three records: pen and Pencil created at the instant 0, ink at the instant 1
ListedNames == <<Chars("pen"), Chars("Pencil"), Chars("ink")>>
ListedRecords ==
  {<<generateRecordId(1 + i), generateInternalTableName(Prefix, Chars("Items"), 0),
     Spread(Prop(Chars("id"), Str(generateRecordId(1 + i))),
            addSystemFieldsForCreate(Data(<< <<"name", Str(ListedNames[i])>> >>),
                                     Seeder, i \div 3))>> : i \in 1..Len(ListedNames)}

InitList ==
  /\ schemas = [SeededSchemas EXCEPT ![<<Prefix, SeedSchemaId>>].recordCount =
                  Len(ListedNames)]
  /\ records = ListedRecords
  /\ nextId = 2 + Len(ListedNames)
  /\ clock = 1
  /\ proc = [p \in Procs |-> Idle]
  /\ calls = 0

NextList ==
  \E p \in Procs :
    \/ ListRecordsCall(p, ListInputsPaged)
    \/ ListRecordsTotal(p)
    \/ ListRecordsQuery(p)
    \/ CreateRecordCall(p, {RecordReq(SeedSchemaId, <<>>, TRUE, ValidItem)})
    \/ CreateRecordSet(p)
    \/ CreateRecordCount(p)

SpecList == InitList /\ [][NextList]_vars

\* the query is a case-insensitive substring of the string form of some
\* attribute of the document
Contains(doc, query) ==
  \E n \in DOMAIN doc : Includes(ToLower(StoredStr(doc[n])), ToLower(query))
\* found holds the documents at the offsets (page - 1) * size .. page * size - 1
\* of the sorted table that contain the query, and no other
FoundOnPage(found, sorted, page, size, query) ==
  found = SelectSeq(
            [k \in 1..(IF page * size < Len(sorted) THEN size
                       ELSE IF (page - 1) * size < Len(sorted)
                         THEN Len(sorted) - (page - 1) * size
                       ELSE 0) |-> sorted[(page - 1) * size + k]],
            LAMBDA doc : Contains(doc, query))
PaginationOf(pagination, page, size, total) ==
  /\ pagination.totalRecords = total
  /\ pagination.totalPages * size >= total
  /\ (pagination.totalPages - 1) * size < total
  /\ pagination.totalPages >= 0
  /\ pagination.hasNextPage <=> page < pagination.totalPages
  /\ pagination.hasPreviousPage <=> page > 1
\* worker p counts the table, and worker p replies to the listing
ListCounts(p) == proc[p].pc = "lr_total" /\ proc'[p].pc = "lr_query"
ListReplies(p) ==
  proc[p].pc = "lr_query" /\ proc'[p].pc = "done" /\ proc'[p].resp.code = "OK"
ListedPage(p, data, page, size) ==
  /\ \E sorted \in OrderedDocs(proc[p].schema.internalName, proc[p].req.sortBy,
                               proc[p].req.sortOrder = Chars("asc")) :
       FoundOnPage(data.records, sorted, page, size, proc[p].req.searchQuery)
  /\ PaginationOf(data.pagination, page, size, proc[p].n)

\* C24: a listing of page p >= 1 with page size s >= 1 and a search query
\* returns exactly the records, among those at the offsets (p-1)*s .. p*s-1
\* of the sorted table, that contain the query as a case-insensitive substring
\* of the string form of some attribute; totalRecords is the count of all the
\* records of the table, and totalPages = ceil(totalRecords / s), hasNextPage
\* = (p < totalPages) and hasPreviousPage = (p > 1), whatever the query.
C24_PageThenSearch ==
  [][\A p \in Procs :
       /\ ListCounts(p)
          => proc'[p].n = Cardinality(DocsOf(records, proc[p].schema.internalName))
       /\ ListReplies(p)
          => ListedPage(p, proc'[p].resp.data, ParseInt(proc[p].req.page).mag,
                        ParseInt(proc[p].req.pageSize).mag)]_vars

\* the second page of two, of a table of three records, was listed with the
\* search pen: one record is on that page, the count is of the whole table
C24_Witness ==
  \E p \in Procs :
    /\ proc[p].op = "listRecords"
    /\ proc[p].pc = "done"
    /\ proc[p].resp.code = "OK"
    /\ proc[p].req.searchQuery = Chars("pen")
    /\ proc[p].req.page = Chars("2")
    /\ proc[p].req.pageSize = Chars("2")
    /\ Len(proc[p].resp.data.records) <= 1
    /\ proc[p].resp.data.pagination.totalRecords = 3
    /\ proc[p].resp.data.pagination.totalPages = 2
    /\ ~proc[p].resp.data.pagination.hasNextPage
    /\ proc[p].resp.data.pagination.hasPreviousPage

(***************************************************************************)
(* Properties of the schema list                                           *)
(***************************************************************************)
\* worker p lists the schemas of an app and is answered
ListsSchemas(p) ==
  /\ Receives(p)
  /\ proc'[p].op = "listSchemas"
  /\ proc'[p].resp.code = "OK"
NewestFirst(list) ==
  \A i, j \in 1..Len(list) :
    (i < j /\ list[i].createdAt # list[j].createdAt) => list[i].createdAt > list[j].createdAt

\* C25: the schema list holds every schema whose appId is the appId asked
\* for and no other, newest first by creation instant: of two schemas of the
\* list created at different instants, also within one second, the one
\* created later comes first.
C25_NewestFirst ==
  [][\A p \in Procs :
       ListsSchemas(p)
       => /\ Range(proc'[p].resp.data.schemas)
               = AppSchemas(proc'[p].req.appPrefix, proc'[p].req.appId)
          /\ Len(proc'[p].resp.data.schemas)
               = Cardinality(AppSchemas(proc'[p].req.appPrefix, proc'[p].req.appId))
          /\ NewestFirst(proc'[p].resp.data.schemas)]_vars

(***************************************************************************)
(* Properties of the error sample of the CSV import                        *)
(***************************************************************************)
\* the import of worker p has validated its rows
AppendValidated(p) ==
  /\ proc[p].op = "importAppend"
  /\ proc[p].pc \in {"ic_commit", "ic_count"}
       \/ (proc[p].pc = "done" /\ proc[p].resp.code = "CREATED")
\* the sample holds the first ErrorSample skipped rows at most, each under
\* the number of its line in the text
SampleOf(errors, skippedRows, parsed, bad) ==
  /\ skippedRows = Len(bad)
  /\ Len(errors) = (IF Len(bad) < ErrorSample THEN Len(bad) ELSE ErrorSample)
  /\ \A k \in 1..Len(errors) : errors[k].index = parsed.lineOf[bad[k]]
SampleOfRows(errors, skippedRows, parsed, fields) ==
  SampleOf(errors, skippedRows, parsed,
           Indices(parsed.rows, LAMBDA i : ~validateRecord(parsed.rows[i], fields).valid))

\* C26: in an append import, every entry of the error sample carries the
\* number the skipped row's line has in the CSV text, the header being line
\* 1, also when blank lines stand between the data rows; the sample holds the
\* first 10 skipped rows at most and skippedRows counts all of them.
C26_SourceLines ==
  \A p \in BulkProcs :
    AppendValidated(p)
    => SampleOfRows(proc[p].out.errors, proc[p].out.skippedRows,
                    parseCSV(proc[p].req.file.buffer), proc[p].schema.fields)

(***************************************************************************)
(* The sequential specification: one worker, one operation at a time, no   *)
(* storage failure                                                         *)
(***************************************************************************)
SeqCreateInputs == {RecordReq(SeedSchemaId, <<>>, TRUE, ValidItem)}
SeqDeleteInputs ==
  {RecordReq(SeedSchemaId, SeedRecordId, FALSE, NoData),
   RecordReq(SeedSchemaId, generateRecordId(0), FALSE, NoData)}
SeqBulkCreateInputs ==
  {BulkReq(SeedSchemaId, "array", <<ValidItem, ValidItem>>),
   BulkReq(SeedSchemaId, "array", <<ValidItem, InvalidItem>>)}
SeqBulkUpdateInputs ==
  {BulkReq(SeedSchemaId, "array", <<Update(SeedRecordId, TRUE, ValidItem)>>)}
\* the identifier of the stored record, alone, with one that does not exist,
\* and twice
SeqBulkDeleteInputs ==
  {BulkReq(SeedSchemaId, "array", <<SeedRecordId>>),
   BulkReq(SeedSchemaId, "array", <<SeedRecordId, generateRecordId(0)>>),
   BulkReq(SeedSchemaId, "array", <<SeedRecordId, SeedRecordId>>)}
SeqImportNewInputs ==
  {ImportReq(TRUE, "Stock", <<>>, CsvFile(Chars("name,price\npen,5\ncup,6\n")))}
SeqImportAppendInputs ==
  {ImportReq(FALSE, "", SeedSchemaId, CsvFile(Chars("name,price\nbox,3\n,4\n")))}

InitSeq ==
  /\ InitStore
  /\ clock = 0
  /\ proc = [p \in CsvProcs |-> Idle]
  /\ calls = 0

NextSeq ==
  \E p \in CsvProcs :
    \/ CreateRecordCall(p, SeqCreateInputs)
    \/ CreateRecordSet(p)
    \/ CreateRecordCount(p)
    \/ DeleteRecordCall(p, SeqDeleteInputs)
    \/ DeleteRecordGet(p)
    \/ DeleteRecordDelete(p)
    \/ DeleteRecordCount(p)
    \/ BulkCreateCall(p, SeqBulkCreateInputs)
    \/ BulkCreateCommit(p)
    \/ BulkCreateCount(p)
    \/ BulkUpdateCall(p, SeqBulkUpdateInputs)
    \/ BulkUpdateCommit(p)
    \/ BulkDeleteCall(p, SeqBulkDeleteInputs)
    \/ BulkDeleteCommit(p)
    \/ BulkDeleteCount(p)
    \/ ImportNewTableCall(p, SeqImportNewInputs)
    \/ ImportAppendCall(p, SeqImportAppendInputs)
    \/ ImportCommit(p)
    \/ ImportCount(p)

SpecSeq == InitSeq /\ [][NextSeq]_vars

\* no operation is under way
Quiet == \A p \in CsvProcs : proc[p].pc \in {"idle", "done"}

\* C27: with one operation at a time and no storage failure, after any
\* sequence of operations (single create and delete, bulk create, update and
\* delete with any list of identifiers, also of records that do not exist or
\* are named twice, both CSV imports) the record count of a schema is the
\* number of the records stored under its internal name.
C27_CountExact ==
  Quiet
  => \A k \in DOMAIN schemas :
       schemas[k].recordCount = Cardinality(DocsOf(records, schemas[k].internalName))

(***************************************************************************)
(* The large-table specification: one worker, two operations, tables at    *)
(* and over the size of one batch                                          *)
(***************************************************************************)
LargeCreateInputs == {BulkReq(SeedSchemaId, "array", Items(BatchSize + 1))}
LargeUpdateInputs == {BulkReq(SeedSchemaId, "array", Updates(BatchSize))}
LargeDeleteInputs ==
  {BulkReq(SeedSchemaId, "array", [i \in 1..BatchSize |-> generateRecordId(i + 1)])}
LargeImportAppendInputs ==
  {ImportReq(FALSE, "", SeedSchemaId,
             CsvFile(CsvText("name,price\n", "box,3\n", ImportRows)))}
LargeDeleteSchemaInputs == {DeleteReq(SeedSchemaId, Seeder, Bool(TRUE))}

InitLarge ==
  /\ schemas = SeededSchemas
  /\ records = SeededRecords
  /\ nextId = 3
  /\ clock = 0
  /\ proc = [p \in CsvProcs |-> Idle]
  /\ calls = 0

NextLarge ==
  \E p \in CsvProcs :
    \/ BulkCreateCall(p, LargeCreateInputs)
    \/ BulkCreateCommit(p)
    \/ BulkCreateCount(p)
    \/ BulkUpdateCall(p, LargeUpdateInputs)
    \/ BulkUpdateCommit(p)
    \/ BulkDeleteCall(p, LargeDeleteInputs)
    \/ BulkDeleteCommit(p)
    \/ BulkDeleteCount(p)
    \/ ImportNewTableCall(p, BigImportNewInputs)
    \/ ImportAppendCall(p, LargeImportAppendInputs)
    \/ ImportCommit(p)
    \/ ImportCount(p)
    \/ DeleteSchemaCall(p, LargeDeleteSchemaInputs)
    \/ DeleteSchemaSnapshot(p)
    \/ DeleteSchemaBatch(p)
    \/ DeleteSchemaDelete(p)

SpecLarge == InitLarge /\ [][NextLarge]_vars

\* C28: every batch an operation commits holds at most 500 writes, whatever
\* the size of the table or of the request: the batches of bulk create,
\* update and delete, the batches of both CSV imports, and the batch of
\* deleteSchema that deletes the records of the table.
C28_BatchCap ==
  \A p \in CsvProcs :
    \A i \in 1..Len(proc[p].tx) : proc[p].tx[i] <= BatchSize

(***************************************************************************)
(* The identifier specification: one worker, CSV files with columns named  *)
(* as system fields                                                        *)
(***************************************************************************)
\* the schema a new-table import makes as the first operation
ImportedSchemaId == generateSchemaId(3)
IdImportNewInputs ==
  {ImportReq(TRUE, "Tags", <<>>, CsvFile(Chars("id,name\n7,pen\n7,cup\n"))),
   ImportReq(TRUE, "Tags", <<>>, CsvFile(Chars("id,name\n7,pen\n8,cup\n"))),
   ImportReq(TRUE, "Tags", <<>>, CsvFile(Chars("id,name\n,pen\n"))),
   ImportReq(TRUE, "Notes", <<>>, CsvFile(Chars("name,createdBy,updatedAt\npen,eve,never\n"))),
   ImportReq(TRUE, "Plain", <<>>, CsvFile(Chars("name\npen\ncup\n")))}
IdImportAppendInputs ==
  {ImportReq(FALSE, "", SeedSchemaId, CsvFile(Chars("name,price\nbox,3\ncup,4\n"))),
   ImportReq(FALSE, "", ImportedSchemaId, CsvFile(Chars("id,name\n7,ink\n9,box\n"))),
   ImportReq(FALSE, "", ImportedSchemaId, CsvFile(Chars("name\nink\nbox\n")))}

InitIds ==
  /\ schemas = SeededSchemas
  /\ records = SeededRecords
  /\ nextId = 3
  /\ clock = 0
  /\ proc = [p \in CsvProcs |-> Idle]
  /\ calls = 0

NextIds ==
  \E p \in CsvProcs :
    \/ ImportNewTableCall(p, IdImportNewInputs)
    \/ ImportAppendCall(p, IdImportAppendInputs)
    \/ ImportCommit(p)
    \/ ImportCount(p)

SpecIds == InitIds /\ [][NextIds]_vars

\* the worker has replied to an import that it inserted rows
Imported(p) ==
  /\ proc[p].pc = "done"
  /\ proc[p].op \in {"importNewTable", "importAppend"}
  /\ proc[p].resp.code = "CREATED"
\* the table holds a record under the key k whose id is k and whose system
\* fields are the engine's
EngineRecord(coll, k, userId) ==
  \E r \in DocsOf(records, coll) :
    /\ r[1] = k
    /\ r[3][Chars("id")] = Str(k)
    /\ r[3][Chars("createdBy")] = Str(userId)
    /\ r[3][Chars("updatedBy")] = Str(userId)
    /\ r[3][Chars("createdAt")].t = "date"
    /\ r[3][Chars("updatedAt")] = r[3][Chars("createdAt")]

\* C29: after a CSV import, new-table or append, that reports N inserted
\* rows, the table holds N records under the N identifiers the engine drew
\* for the rows, each with that identifier as its id and with the engine's
\* createdBy, createdAt, updatedBy and updatedAt, also when the file has a
\* column named id or named as another system field.
C29_EngineIds ==
  \A p \in CsvProcs :
    Imported(p)
    => \A k \in DrawnKeys(nextId - proc[p].resp.data.insertedRecords,
                          proc[p].resp.data.insertedRecords) :
         EngineRecord(proc[p].schema.internalName, k, proc[p].req.userId)

(***************************************************************************)
(* The applications specification: one worker, requests that pass the      *)
(* input checks, sent in the name of the schema's application and of       *)
(* another one                                                             *)
(***************************************************************************)
WithApp(reqs) == {[r EXCEPT !.appId = a] : r \in reqs, a \in {App, Other}}
AppCreateInputs == WithApp({RecordReq(SeedSchemaId, <<>>, TRUE, ValidItem)})
AppUpdateInputs == WithApp({RecordReq(SeedSchemaId, SeedRecordId, TRUE, ValidItem)})
AppDeleteInputs == WithApp({RecordReq(SeedSchemaId, SeedRecordId, FALSE, NoData)})
AppValidateInputs == WithApp({RecordReq(SeedSchemaId, <<>>, TRUE, ValidItem)})
AppListInputs == WithApp({ListReq(SeedSchemaId, "1", "2", "desc", "")})
AppBulkCreateInputs == WithApp({BulkReq(SeedSchemaId, "array", <<ValidItem>>)})
AppBulkUpdateInputs ==
  WithApp({BulkReq(SeedSchemaId, "array", <<Update(SeedRecordId, TRUE, ValidItem)>>)})
AppBulkDeleteInputs == WithApp({BulkReq(SeedSchemaId, "array", <<SeedRecordId>>)})
AppImportInputs ==
  WithApp({ImportReq(FALSE, "", SeedSchemaId, CsvFile(Chars("name,price\nbox,3\n")))})
AppExportInputs == WithApp({ExportReq(SeedSchemaId, <<>>, "true")})
AppDeleteSchemaInputs == WithApp({DeleteReq(SeedSchemaId, Seeder, Bool(TRUE))})
AppGetInputs == WithApp({SchemaQuery(App, SeedSchemaId)})

InitApps ==
  /\ schemas = SeededSchemas
  /\ records = SeededRecords
  /\ nextId = 3
  /\ clock = 0
  /\ proc = [p \in CsvProcs |-> Idle]
  /\ calls = 0

NextApps ==
  \E p \in CsvProcs :
    \/ GetSchemaCall(p, AppGetInputs)
    \/ CreateRecordCall(p, AppCreateInputs)
    \/ CreateRecordSet(p)
    \/ CreateRecordCount(p)
    \/ ListRecordsCall(p, AppListInputs)
    \/ ListRecordsTotal(p)
    \/ ListRecordsQuery(p)
    \/ UpdateRecordCall(p, AppUpdateInputs)
    \/ UpdateRecordGet(p)
    \/ UpdateRecordWrite(p)
    \/ UpdateRecordRead(p)
    \/ DeleteRecordCall(p, AppDeleteInputs)
    \/ DeleteRecordGet(p)
    \/ DeleteRecordDelete(p)
    \/ DeleteRecordCount(p)
    \/ ValidateRecordCall(p, AppValidateInputs)
    \/ BulkCreateCall(p, AppBulkCreateInputs)
    \/ BulkCreateCommit(p)
    \/ BulkCreateCount(p)
    \/ BulkUpdateCall(p, AppBulkUpdateInputs)
    \/ BulkUpdateCommit(p)
    \/ BulkDeleteCall(p, AppBulkDeleteInputs)
    \/ BulkDeleteCommit(p)
    \/ BulkDeleteCount(p)
    \/ ImportAppendCall(p, AppImportInputs)
    \/ ImportCommit(p)
    \/ ImportCount(p)
    \/ ExportCall(p, AppExportInputs)
    \/ ExportGet(p)
    \/ DeleteSchemaCall(p, AppDeleteSchemaInputs)
    \/ DeleteSchemaSnapshot(p)
    \/ DeleteSchemaBatch(p)
    \/ DeleteSchemaDelete(p)

SpecApps == InitApps /\ [][NextApps]_vars

\* the request the worker p receives in this step names a stored schema of
\* another application than the one it gives
ForeignRequest(p) ==
  /\ Receives(p)
  /\ SchemaKey(proc'[p].req) \in DOMAIN schemas
  /\ schemas[SchemaKey(proc'[p].req)].appId # proc'[p].req.appId

\* C30: an operation addressed by (appId, schemaId), whether on records
\* (create, list, update, delete, validate), in bulk (create, update,
\* delete), a CSV append import or export, or deleteSchema, that gives
\* another appId than the one the schema records is answered with
\* SCHEMA_NOT_FOUND at once, as getSchema answers, and leaves the schema and
\* the records as they are.
C30_AppIsolation ==
  [][\A p \in CsvProcs :
       ForeignRequest(p)
       => /\ proc'[p].pc = "done"
          /\ proc'[p].resp.code = "SCHEMA_NOT_FOUND"
          /\ schemas' = schemas
          /\ records' = records]_vars

=============================================================================
